---- MODULE Spec2Model ----
(***************************************************************************)
(* A model of the lettuce inventory simulation: the Bin and Reactor of     *)
(* reactor.py, the Recorder of history_recorder.py and the event loop      *)
(* perform_experiment of howveyoubin.py.                                   *)
(*                                                                         *)
(* Simulated time is a natural number of time units.  Every draw of a      *)
(* random source (a service time, the bin picked for a request, the order  *)
(* of a shuffle) is a nondeterministic choice from a bounded set.          *)
(***************************************************************************)
EXTENDS Integers, Sequences, FiniteSets, TLC

\* ------------------------------------------------------------------ bounds
\* longest parsed workload
MaxScript == 2
\* largest quantity of a workload record
MaxQty == 2
\* largest initial number of bins, and largest answer of the controller
MaxBins == 2
\* largest service time a random source draws
MaxSvc == 1

\* ------------------------------------------------------- program constants
TIME_BETWEEN_ADAPTATION == 10
\* the controller's answer must be below this (howveyoubin.py, AdaptNow branch)
ADAPT_LIMIT == 1000
\* initial length of every array of the Recorder
INITIAL_CAPACITY == 1024
\* the ceiling of an array's length
MAX_CAPACITY == 32768

\* timestamps a workload record may carry
Times == {0, 1, 9, 10}
Qtys == 0..MaxQty
SvcTimes == 0..MaxSvc

VARIABLES
    script,          \* perform_experiment: the pending-action list
    bins,            \* Reactor.bins, bin id b at position b+1
    last_time_used,  \* Reactor._last_time_used, the watermark
    recorder,        \* the Recorder's fields
    pc,              \* "run" while the loop runs, "done" after it, "failed" on a fatal error
    failure,         \* which fatal error ended the run ("none" if none)
    curr_item,       \* the action popped last
    next_ord,        \* history: how many actions have been scheduled so far
    ledger,          \* history: per request id, what the probes returned
    restocked,       \* history: total quantity of the Restock actions processed
    ret,             \* the values returned by the last Reactor call
    calls,           \* history: the calls made on the pool, recorder or controller directly
    adaptor,         \* the PIAdaptor's field accumulated_error, in tenths
    twin             \* a second run of perform_experiment next to this one (NoTwin if none)

vars == <<script, bins, last_time_used, recorder, pc, failure, curr_item,
          next_ord, ledger, restocked, ret, calls, adaptor, twin>>

\* --------------------------------------------------------------- helpers
Max(a, b) == IF a >= b THEN a ELSE b
Min(a, b) == IF a <= b THEN a ELSE b
Last(s) == s[Len(s)]
\* math.ceil(a / b) for a >= 0, b > 0
Ceil(a, b) == (a + b - 1) \div b

RECURSIVE SumSeq(_)
SumSeq(s) == IF s = <<>> THEN 0 ELSE Head(s) + SumSeq(Tail(s))

\* all orders in which random.shuffle can leave the list 0..n-1
Perms(n) == {p \in [1..n -> 0..(n-1)] : \A i, j \in 1..n : i # j => p[i] # p[j]}

\* ------------------------------------------------------------------- Bin
Bin(stock, created_at) ==
    [locked_times |-> << <<created_at, created_at>> >>,
     stock        |-> << <<created_at, stock>> >>]

\* a slip: the end of the last lock, not clamped to the timestamp
next_unlocked_unclamped(b, timestamp) == Last(b.locked_times)[2]

next_unlocked(b, timestamp) == Max(Last(b.locked_times)[2], timestamp)

remaining_stock(b) == Last(b.stock)[2]

\* a slip: the stock left is not floored at 0
Bin_reserve_stock_unfloored(b, quantity, timestamp, service_time) ==
    LET end_of_queue_time == next_unlocked(b, timestamp)
        stock_left == remaining_stock(b) - quantity
    IN  [bin |-> [locked_times |-> Append(b.locked_times,
                      <<end_of_queue_time, end_of_queue_time + service_time>>),
                  stock |-> Append(b.stock,
                      <<end_of_queue_time + service_time, stock_left>>)],
         queue_time   |-> end_of_queue_time - timestamp,
         service_time |-> service_time,
         quantity     |-> remaining_stock(b) - stock_left]

\* a slip: the queue time is counted from the end of the last lock even when
\* that end is before the request's timestamp
Bin_reserve_stock_raw_wait(b, quantity, timestamp, service_time) ==
    LET end_of_queue_time == next_unlocked(b, timestamp)
        true_remaining_stock_at_service == remaining_stock(b)
        stock_left == Max(0, true_remaining_stock_at_service - quantity)
    IN  [bin |-> [locked_times |-> Append(b.locked_times,
                      <<end_of_queue_time, end_of_queue_time + service_time>>),
                  stock |-> Append(b.stock,
                      <<end_of_queue_time + service_time, stock_left>>)],
         queue_time   |-> Last(b.locked_times)[2] - timestamp,
         service_time |-> service_time,
         quantity     |-> true_remaining_stock_at_service - stock_left]

\* a slip: the lock starts at the request's timestamp, not at the end of the queue
Bin_reserve_stock_lock_at_arrival(b, quantity, timestamp, service_time) ==
    LET end_of_queue_time == next_unlocked(b, timestamp)
        true_remaining_stock_at_service == remaining_stock(b)
        stock_left == Max(0, true_remaining_stock_at_service - quantity)
    IN  [bin |-> [locked_times |-> Append(b.locked_times,
                      <<timestamp, timestamp + service_time>>),
                  stock |-> Append(b.stock,
                      <<timestamp + service_time, stock_left>>)],
         queue_time   |-> end_of_queue_time - timestamp,
         service_time |-> service_time,
         quantity     |-> true_remaining_stock_at_service - stock_left]

\* Bin.reserve_stock; service_time is the draw of the bin's random source
Bin_reserve_stock(b, quantity, timestamp, service_time) ==
    LET end_of_queue_time == next_unlocked(b, timestamp)
        true_remaining_stock_at_service == remaining_stock(b)
        stock_left == Max(0, true_remaining_stock_at_service - quantity)
    IN  [bin |-> [locked_times |-> Append(b.locked_times,
                      <<end_of_queue_time, end_of_queue_time + service_time>>),
                  stock |-> Append(b.stock,
                      <<end_of_queue_time + service_time, stock_left>>)],
         queue_time   |-> end_of_queue_time - timestamp,
         service_time |-> service_time,
         quantity     |-> true_remaining_stock_at_service - stock_left]

\* a slip: the quantity is added to the first ledger entry, not the last
Bin_add_stock_to_first(b, quantity, timestamp, service_time) ==
    LET end_of_queue_time == next_unlocked(b, timestamp)
    IN  [locked_times |-> Append(b.locked_times,
             <<end_of_queue_time, end_of_queue_time + service_time>>),
         stock |-> Append(b.stock,
             <<end_of_queue_time + service_time, b.stock[1][2] + quantity>>)]

\* a slip: the lock starts at the call's timestamp, not at the end of the queue
Bin_add_stock_lock_at_arrival(b, quantity, timestamp, service_time) ==
    LET end_of_queue_time == next_unlocked(b, timestamp)
    IN  [locked_times |-> Append(b.locked_times,
             <<timestamp, timestamp + service_time>>),
         stock |-> Append(b.stock,
             <<timestamp + service_time, remaining_stock(b) + quantity>>)]

\* Bin.add_stock; service_time is the draw of the bin's random source
Bin_add_stock(b, quantity, timestamp, service_time) ==
    LET end_of_queue_time == next_unlocked(b, timestamp)
    IN  [locked_times |-> Append(b.locked_times,
             <<end_of_queue_time, end_of_queue_time + service_time>>),
         stock |-> Append(b.stock,
             <<end_of_queue_time + service_time, remaining_stock(b) + quantity>>)]

\* --------------------------------------------------------------- Reactor
\* a slip: every bin gets stock_per_bin, whatever is left to assign
RECURSIVE NewBins_uncapped(_, _, _, _, _)
NewBins_uncapped(n, stock, stock_per_bin, stock_assigned, created_at) ==
    IF n = 0 THEN <<>>
    ELSE <<Bin(stock_per_bin, created_at)>> \o
         NewBins_uncapped(n - 1, stock, stock_per_bin, stock_assigned, created_at)

\* the loop of Reactor.__init__ and of reshape_num_bins: stock spread over the
\* new bins, the last ones may get less
RECURSIVE NewBins(_, _, _, _, _)
NewBins(n, stock, stock_per_bin, stock_assigned, created_at) ==
    IF n = 0 THEN <<>>
    ELSE LET stock_to_assign == Min(stock_per_bin, stock - stock_assigned)
         IN  <<Bin(stock_to_assign, created_at)>> \o
             NewBins(n - 1, stock, stock_per_bin,
                     stock_assigned + stock_to_assign, created_at)

Reactor_init(stock, num, created_at) ==
    NewBins(num, stock, Ceil(stock, num), 0, created_at)

num_bins(bs) == Len(bs)

stock_available(bs) == SumSeq([i \in 1..Len(bs) |-> remaining_stock(bs[i])])

\* a slip: a call at the watermark itself is refused too
WatermarkOk_strict(timestamp, watermark) == timestamp > watermark

\* the assertion opening reserve_stock, add_stock and reshape_num_bins
WatermarkOk(timestamp, watermark) == timestamp >= watermark

\* service_bin_id=None, the default of Reactor.reserve_stock and add_stock
None == 0 - 1

\* a slip: the pool picks a bin also when the caller names one
pick_bin_always(service_bin_id, drawn) == [service_bin_id |-> drawn, draws |-> 1]

\* the bin Reactor.reserve_stock serves: the one given or, with None, what
\* self.rand.randrange(0, len(self.bins)) returns; draws counts the draws
\* from the pool's random source
pick_bin(service_bin_id, drawn) ==
    IF service_bin_id = None THEN [service_bin_id |-> drawn, draws |-> 1]
    ELSE [service_bin_id |-> service_bin_id, draws |-> 0]

\* Reactor.reserve_stock after the assertion, on bin service_bin_id
Reactor_reserve_stock(bs, quantity, timestamp, service_bin_id, service_time) ==
    LET r == Bin_reserve_stock(bs[service_bin_id + 1], quantity, timestamp, service_time)
    IN  [bins              |-> [bs EXCEPT ![service_bin_id + 1] = r.bin],
         queue_time        |-> r.queue_time,
         service_time      |-> r.service_time,
         service_bin_id    |-> service_bin_id,
         quantity_reserved |-> r.quantity]

\* the share each bin of service_bin_ids gets, in the shuffled order
RECURSIVE Shares(_, _, _, _)
Shares(k, stock_per_bin, quantity, stock_assigned) ==
    IF k = 0 THEN <<>>
    ELSE LET stock_to_assign == Min(stock_per_bin, quantity - stock_assigned)
         IN  <<stock_to_assign>> \o
             Shares(k - 1, stock_per_bin, quantity, stock_assigned + stock_to_assign)

\* another rule: the quantity split evenly, the first bins one more
add_stock_shares_even(bs, quantity, service_bin_ids) ==
    [i \in 1..Len(service_bin_ids) |->
        (quantity \div Len(bs)) + (IF i <= quantity % Len(bs) THEN 1 ELSE 0)]

\* the quantity each targeted bin is handed; the divisor is the pool's bin count
add_stock_shares(bs, quantity, service_bin_ids) ==
    Shares(Len(service_bin_ids), Ceil(quantity, Len(bs)), quantity, 0)

\* a slip: a bin whose share is 0 is not called
RECURSIVE add_stock_loop_skip_empty(_, _, _, _, _, _)
add_stock_loop_skip_empty(bs, service_bin_ids, shares, i, timestamp, svc) ==
    IF i > Len(service_bin_ids) THEN bs
    ELSE LET bin_id == service_bin_ids[i]
         IN  add_stock_loop_skip_empty(
                 IF shares[i] = 0 THEN bs
                 ELSE [bs EXCEPT ![bin_id + 1] =
                          Bin_add_stock(bs[bin_id + 1], shares[i], timestamp, svc[bin_id])],
                 service_bin_ids, shares, i + 1, timestamp, svc)

\* Reactor.add_stock after the assertion: service_bin_ids is the list after
\* the shuffle, svc[b] the service time bin b's random source draws
RECURSIVE add_stock_loop(_, _, _, _, _, _)
add_stock_loop(bs, service_bin_ids, shares, i, timestamp, svc) ==
    IF i > Len(service_bin_ids) THEN bs
    ELSE LET bin_id == service_bin_ids[i]
         IN  add_stock_loop(
                 [bs EXCEPT ![bin_id + 1] =
                     Bin_add_stock(bs[bin_id + 1], shares[i], timestamp, svc[bin_id])],
                 service_bin_ids, shares, i + 1, timestamp, svc)

Reactor_add_stock(bs, quantity, timestamp, service_bin_ids, svc) ==
    add_stock_loop(bs, service_bin_ids,
                   add_stock_shares(bs, quantity, service_bin_ids), 1, timestamp, svc)

\* a slip: the bins are destroyed at once, whatever is still in service
soonest_time_at_once(bs, i, timestamp, acc) == timestamp

\* the soonest time the existing bins can be destroyed
RECURSIVE soonest_time(_, _, _, _)
soonest_time(bs, i, timestamp, acc) ==
    IF i > Len(bs) THEN acc
    ELSE LET available_after == next_unlocked(bs[i], timestamp)
         IN  soonest_time(bs, i + 1, timestamp,
                          IF available_after > acc THEN available_after ELSE acc)

\* a slip: the bins are rebuilt also when the count stays the same
Reactor_reshape_num_bins_always(bs, num, timestamp, service_time) ==
    LET soonest == soonest_time(bs, 1, timestamp, timestamp)
        stock == stock_available(bs)
        fresh == NewBins(num, stock, Ceil(stock, num), 0, soonest)
    IN  [bins |-> [i \in 1..num |->
                     [fresh[i] EXCEPT !.locked_times =
                         Append(@, <<soonest, soonest + service_time>>)]],
         completed |-> soonest + service_time,
         draws |-> num + 1]

\* Reactor.reshape_num_bins after the assertion; service_time is the draw of
\* the pool's random source, draws the number of times self.rand is drawn
\* from (a seed for every new bin, then the service time)
Reactor_reshape_num_bins(bs, num, timestamp, service_time) ==
    IF Len(bs) = num THEN [bins |-> bs, completed |-> timestamp, draws |-> 0]
    ELSE LET soonest == soonest_time(bs, 1, timestamp, timestamp)
             stock == stock_available(bs)
             fresh == NewBins(num, stock, Ceil(stock, num), 0, soonest)
         IN  [bins |-> [i \in 1..num |->
                          [fresh[i] EXCEPT !.locked_times =
                              Append(@, <<soonest, soonest + service_time>>)]],
              completed |-> soonest + service_time,
              draws |-> num + 1]

\* -------------------------------------------------------------- Recorder
\* A numpy array of zeros: its length and the entries that are not zero
Zeros(len) == [len |-> len, val |-> [i \in {} |-> 0]]
At(a, i) == IF i \in DOMAIN a.val THEN a.val[i] ELSE 0
Put(a, i, v) ==
    [a EXCEPT !.val = [j \in (DOMAIN a.val \ {i}) \cup (IF v = 0 THEN {} ELSE {i}) |->
                          IF j = i THEN v ELSE a.val[j]]]
Resize(a, new_size) == [a EXCEPT !.len = new_size]

bucket_index(timestamp, sample_rate) == timestamp \div sample_rate

Recorder_init(sample_rate, script_end) ==
    [sample_rate |-> sample_rate,
     oldest_timestamp |-> 0,
     queue_waiting_numerator |-> Zeros(INITIAL_CAPACITY),
     service_time_numerator |-> Zeros(INITIAL_CAPACITY),
     stock_numerator |-> Zeros(INITIAL_CAPACITY),
     checked_numerator |-> Zeros(INITIAL_CAPACITY),
     num_records |-> Zeros(INITIAL_CAPACITY),
     restocks |-> <<>>,
     restocks_len |-> INITIAL_CAPACITY,
     num_started_requests |-> Zeros(INITIAL_CAPACITY),
     oldest_started_request_timestamp |-> 0,
     bin_nums |-> <<>>,
     bin_nums_len |-> INITIAL_CAPACITY,
     script_end |-> script_end]

\* what stops record_num_bins ("none" when it returns)
record_num_bins_error(rec, num, timestamp) ==
    IF ~(timestamp >= 0) \/ ~(num > 0) THEN "assert"
    ELSE IF Len(rec.bin_nums) >= rec.bin_nums_len /\ rec.bin_nums_len * 2 > MAX_CAPACITY
         THEN "capacity"
    ELSE "none"

\* a slip: bin_nums_next_index is not advanced, each sample overwrites the last
record_num_bins_in_place(rec, num, timestamp) ==
    [rec EXCEPT !.bin_nums = IF @ = <<>> THEN <<<<timestamp, num>>>>
                             ELSE [@ EXCEPT ![Len(@)] = <<timestamp, num>>]]

\* bin_nums and bin_nums_timestamps, as one list of <<timestamp, num_bins>>
record_num_bins(rec, num, timestamp) ==
    [rec EXCEPT !.bin_nums_len = IF Len(rec.bin_nums) >= @ THEN @ * 2 ELSE @,
                !.bin_nums = Append(@, <<timestamp, num>>)]

record_start_request_error(rec, timestamp) ==
    LET bin_index == bucket_index(timestamp, rec.sample_rate)
        len == rec.num_started_requests.len
    IN  IF ~(timestamp > 0) THEN "assert"
        ELSE IF len <= bin_index /\ len * 2 > MAX_CAPACITY THEN "capacity"
        ELSE IF len <= bin_index /\ len * 2 <= bin_index THEN "index"
        ELSE "none"

record_start_request(rec, timestamp) ==
    LET bin_index == bucket_index(timestamp, rec.sample_rate)
        a == rec.num_started_requests
        grown == IF a.len <= bin_index THEN Resize(a, a.len * 2) ELSE a
    IN  [rec EXCEPT
            !.oldest_started_request_timestamp = Max(@, timestamp),
            !.num_started_requests = Put(grown, bin_index, At(grown, bin_index) + 1)]

record_event_error(rec, bins_checked, timestamp) ==
    LET bin_index == bucket_index(timestamp, rec.sample_rate)
        len == rec.num_records.len
    IN  IF timestamp > rec.script_end THEN "none"
        ELSE IF ~(timestamp >= 0) \/ ~(bins_checked > 0) THEN "assert"
        ELSE IF len <= bin_index /\ len * 2 > MAX_CAPACITY THEN "capacity"
        ELSE IF len <= bin_index /\ len * 2 <= bin_index THEN "index"
        ELSE "none"

record_event(rec, queue_time, service_time, stock_left, bins_checked, timestamp) ==
    IF timestamp > rec.script_end THEN rec
    ELSE LET bin_index == bucket_index(timestamp, rec.sample_rate)
             grow(a) == IF rec.num_records.len <= bin_index
                        THEN Resize(a, a.len * 2) ELSE a
             add(a, d) == Put(grow(a), bin_index, At(a, bin_index) + d)
         IN  [rec EXCEPT
                 !.oldest_timestamp = Max(@, timestamp),
                 !.queue_waiting_numerator = add(@, queue_time),
                 !.service_time_numerator = add(@, service_time),
                 !.stock_numerator = add(@, stock_left),
                 !.checked_numerator = add(@, bins_checked),
                 !.num_records = add(@, 1)]

record_restock_error(rec, timestamp) ==
    IF timestamp > rec.script_end THEN "none"
    ELSE IF ~(timestamp >= 0) THEN "assert"
    ELSE IF Len(rec.restocks) + 1 >= rec.restocks_len /\ rec.restocks_len * 2 > MAX_CAPACITY
         THEN "capacity"
    ELSE "none"

record_restock(rec, timestamp) ==
    IF timestamp > rec.script_end THEN rec
    ELSE [rec EXCEPT
             !.restocks_len = IF Len(rec.restocks) + 1 >= @ THEN @ * 2 ELSE @,
             !.restocks = Append(@, timestamp)]

\* a slip: a position of exactly 0.05 counts as inside the bucket
point_query_index_strict(rec, timestamp) ==
    LET bin_index == bucket_index(timestamp, rec.sample_rate)
    IN  IF 20 * (timestamp % rec.sample_rate) < rec.sample_rate
        THEN Max(0, bin_index - 1) ELSE bin_index

\* the bucket the point queries read: the one before, near a bucket's start
point_query_index(rec, timestamp) ==
    LET bin_index == bucket_index(timestamp, rec.sample_rate)
    IN  IF 20 * (timestamp % rec.sample_rate) <= rec.sample_rate
        THEN Max(0, bin_index - 1) ELSE bin_index

\* get_avg_service_time_at, get_avg_queue_time_at, get_avg_stock_at and
\* get_bins_checked_at read num_records and a numerator at that bucket
point_query_error(rec, timestamp) ==
    IF point_query_index(rec, timestamp) >= rec.num_records.len THEN "index" ELSE "none"

\* what such a query returns, as the quotient num / den (0 when the bucket
\* holds no samples); numerator names the array the query reads
point_query(rec, numerator, timestamp) ==
    LET bin_index == point_query_index(rec, timestamp)
        num == At(rec[numerator], bin_index)
        denom == At(rec.num_records, bin_index)
    IN  IF denom = 0 THEN [num |-> 0, den |-> 1] ELSE [num |-> num, den |-> denom]

\* a slip: the mask that keeps the division from 0 / 0 is added to
\* num_records in place
point_query_after_masked(rec, timestamp) ==
    LET i == point_query_index(rec, timestamp)
    IN  IF At(rec.num_records, i) = 0
        THEN [rec EXCEPT !.num_records = Put(rec.num_records, i, 1)]
        ELSE rec

\* the recorder after such a query: the four methods assign to no field
point_query_after(rec, timestamp) == rec

get_request_rate_at_error(rec, timestamp) ==
    LET bin_index == bucket_index(timestamp, rec.sample_rate)
        len == rec.num_started_requests.len
    IN  IF rec.oldest_started_request_timestamp < rec.sample_rate * (bin_index + 1)
        THEN IF bin_index > 0 /\ bin_index - 1 >= len THEN "index" ELSE "none"
        ELSE IF bin_index >= len THEN "index" ELSE "none"

\* Bin.utilization_percent divides by to - since after moving since up to the
\* bin's creation time
utilization_error(b, since, to) ==
    IF to = since THEN "none"
    ELSE IF to - Max(since, b.locked_times[1][1]) = 0 THEN "zero_division"
    ELSE "none"

\* the loop of Bin.utilization_percent over locked_times[k..], since already
\* moved up to the bin's creation time
RECURSIVE cumulative_time_locked(_, _, _, _)
cumulative_time_locked(locked_times, k, since, to) ==
    IF k > Len(locked_times) THEN 0
    ELSE LET start_lock == locked_times[k][1]
             end_lock == locked_times[k][2]
             rest == cumulative_time_locked(locked_times, k + 1, since, to)
         IN  IF start_lock >= to \/ end_lock < since THEN rest
             ELSE (Min(to, end_lock) - Max(since, start_lock)) + rest

\* Bin.utilization_percent where it returns: the quotient num / den
utilization_percent(b, since, to) ==
    IF to = since THEN [num |-> 1, den |-> 1]
    ELSE LET since2 == Max(since, b.locked_times[1][1])
         IN  [num |-> cumulative_time_locked(b.locked_times, 1, since2, to),
              den |-> to - since2]

avg_utilization_error(bs, since, to) ==
    IF \E i \in 1..Len(bs) : utilization_error(bs[i], since, to) # "none"
    THEN "zero_division" ELSE "none"

\* --------------------------------------------------- the pending actions
\* Every action carries ord, a history field: its rank in scheduling order.
InventoryRequest(timestamp, quantity, request_id, ord) ==
    [type |-> "InventoryRequest", timestamp |-> timestamp, quantity |-> quantity,
     request_id |-> request_id, ord |-> ord]

InventoryRestock(timestamp, quantity, request_id, ord) ==
    [type |-> "InventoryRestock", timestamp |-> timestamp, quantity |-> quantity,
     request_id |-> request_id, ord |-> ord]

ReturnInventoryRequest(original_request, quantity, queue_time, service_time, bins_checked, timestamp, ord) ==
    [type |-> "ReturnInventoryRequest", original_request |-> original_request,
     quantity |-> quantity, queue_time |-> queue_time, service_time |-> service_time,
     bins_checked |-> bins_checked, timestamp |-> timestamp, ord |-> ord]

\* the assertions of RetryInventoryRequest.__init__
RetryInventoryRequest_ok(original_request, reserved_so_far, first_bin_checked, timestamp) ==
    /\ reserved_so_far >= 0
    /\ reserved_so_far < original_request.quantity
    /\ first_bin_checked >= 0
    /\ timestamp >= 0

\* a slip: the first probe is not counted
RetryInventoryRequest_uncounted(original_request, reserved_so_far, first_bin_checked, queue_time_so_far, service_time_so_far, timestamp, ord) ==
    [type |-> "RetryInventoryRequest", original_request |-> original_request,
     reserved_so_far |-> reserved_so_far, first_bin_checked |-> first_bin_checked,
     queue_time_so_far |-> queue_time_so_far,
     service_time_so_far |-> service_time_so_far,
     timestamp |-> timestamp, bins_checked |-> 0, ord |-> ord]

RetryInventoryRequest(original_request, reserved_so_far, first_bin_checked, queue_time_so_far, service_time_so_far, timestamp, ord) ==
    [type |-> "RetryInventoryRequest", original_request |-> original_request,
     reserved_so_far |-> reserved_so_far, first_bin_checked |-> first_bin_checked,
     queue_time_so_far |-> queue_time_so_far,
     service_time_so_far |-> service_time_so_far,
     timestamp |-> timestamp, bins_checked |-> 1, ord |-> ord]

AdaptNow(timestamp, ord) == [type |-> "AdaptNow", timestamp |-> timestamp, ord |-> ord]

\* a slip: the loop walks past the actions of equal timestamp too
RECURSIVE insert_index_after_ties(_, _, _)
insert_index_after_ties(lst, action, i) ==
    IF i < Len(lst) /\ action.timestamp >= lst[i + 1].timestamp
    THEN insert_index_after_ties(lst, action, i + 1)
    ELSE i

\* the index insert_action_sorted's loop stops at (0-based)
RECURSIVE insert_index(_, _, _)
insert_index(lst, action, i) ==
    IF i < Len(lst) /\ action.timestamp > lst[i + 1].timestamp
    THEN insert_index(lst, action, i + 1)
    ELSE i

insert_action_sorted(lst, action) ==
    LET k == insert_index(lst, action, 0)
    IN  SubSeq(lst, 1, k) \o <<action>> \o SubSeq(lst, k + 1, Len(lst))

\* ------------------------------------------------------------ the controller
\* Python's round(n / d) for d > 0: to the nearest integer, a tie to the even one
Round(n, d) ==
    LET q == n \div d
        r == n - q * d
    IN  IF 2 * r < d THEN q
        ELSE IF 2 * r > d THEN q + 1
        ELSE IF q % 2 = 0 THEN q ELSE q + 1

\* PIAdaptor.__init__
PIAdaptor_init == [accumulated_error |-> 0]

\* a slip: the answer is not floored at 1
PIAdaptor_adapt_unfloored(a, current_bins, current_utilization) ==
    LET err == current_utilization - 1
        accumulated_error == a.accumulated_error + err
    IN  [adaptor |-> [accumulated_error |-> accumulated_error],
         result |-> Round(50 * err + 4 * accumulated_error, 100) + current_bins]

\* PIAdaptor.adapt; utilization and accumulated error are counted in tenths,
\* so that set_point is 1, p is 50 * err / 100 and i is 4 * accumulated / 100
PIAdaptor_adapt(a, current_bins, current_utilization) ==
    LET err == current_utilization - 1
        accumulated_error == a.accumulated_error + err
    IN  [adaptor |-> [accumulated_error |-> accumulated_error],
         result |-> Max(1, Round(50 * err + 4 * accumulated_error, 100) + current_bins)]

\* PIDAdaptor(kp, ki, kd, i_min, i_max): the gains are integers, the clamp
\* bounds and the errors are counted in tenths
PIDAdaptor_init(kp, ki, kd, i_min, i_max) ==
    [kp |-> kp, ki |-> ki, kd |-> kd, i_min |-> i_min, i_max |-> i_max,
     accumulated_error |-> 0, previous_error |-> 0, previous_time |-> 0]

\* the running sum of the error, kept within [i_min, i_max]
clamp(x, lo, hi) == Max(lo, Min(hi, x))

\* a slip: the PI variant's sign of the error, measurement - target
PIDAdaptor_adapt_pi_sign(a, current_bins, current_utilization, timestamp) ==
    LET err == current_utilization - 1
        integral == a.accumulated_error + err
        clamped == clamp(integral, a.i_min, a.i_max)
        elapsed == timestamp - a.previous_time
        dt == IF elapsed = 0 THEN 1 ELSE elapsed
        num == (a.kp * err + a.ki * clamped) * dt + a.kd * (err - a.previous_error)
    IN  [adaptor |-> [a EXCEPT !.accumulated_error = clamped,
                               !.previous_error = err,
                               !.previous_time = timestamp],
         error |-> err, integral |-> integral, dt |-> dt,
         result |-> Max(1, Round(num, 10 * dt) + current_bins)]

\* PIDAdaptor.adapt: error = target - utilization with target 0.1 (1 tenth),
\* derivative = (error - previous_error) / dt with dt = 0 taken as 1, and
\* kp * error + ki * clamped + kd * derivative = num / (10 * dt)
PIDAdaptor_adapt(a, current_bins, current_utilization, timestamp) ==
    LET err == 1 - current_utilization
        integral == a.accumulated_error + err
        clamped == clamp(integral, a.i_min, a.i_max)
        elapsed == timestamp - a.previous_time
        dt == IF elapsed = 0 THEN 1 ELSE elapsed
        num == (a.kp * err + a.ki * clamped) * dt + a.kd * (err - a.previous_error)
    IN  [adaptor |-> [a EXCEPT !.accumulated_error = clamped,
                               !.previous_error = err,
                               !.previous_time = timestamp],
         error |-> err, integral |-> integral, dt |-> dt,
         result |-> Max(1, Round(num, 10 * dt) + current_bins)]

\* ------------------------------------------------------------- the workload
\* script_parser.parse_script on a file whose lines are in timestamp order
Lines == [kind : {"-", "+"}, timestamp : Times, quantity : Qtys]

Workloads ==
    {w \in UNION {[1..n -> Lines] : n \in 1..MaxScript} :
        \A i \in 1..(Len(w) - 1) : w[i].timestamp <= w[i + 1].timestamp}

parse_script(w) ==
    [i \in 1..Len(w) |->
        IF w[i].kind = "-"
        THEN InventoryRequest(w[i].timestamp, w[i].quantity, i - 1, i - 1)
        ELSE InventoryRestock(w[i].timestamp, w[i].quantity, i - 1, i - 1)]

\* the loop over np.arange(script_start, script_end, TIME_BETWEEN_ADAPTATION)
RECURSIVE insert_ticks(_, _, _, _)
insert_ticks(lst, ts, script_end, ord) ==
    IF ts >= script_end THEN lst
    ELSE insert_ticks(insert_action_sorted(lst, AdaptNow(ts, ord)),
                      ts + TIME_BETWEEN_ADAPTATION, script_end, ord + 1)

\* what the controller may answer: any bin count from 1 up
AdaptOutputs == 1..MaxBins

NoItem == [type |-> "none", timestamp |-> 0, ord |-> 0 - 1]
NoRet == [op |-> "none"]
NoTwin == <<>>

RequestIds(lst) ==
    {lst[i].request_id : i \in {j \in 1..Len(lst) : lst[j].type = "InventoryRequest"}}

\* perform_experiment up to its loop, for a workload of W and a bin count of N
Experiment(W, N) ==
    \E w \in W, n \in N :
        LET parsed == parse_script(w)
            script_start == parsed[1].timestamp
            script_end == parsed[Len(parsed)].timestamp
            with_ticks == insert_ticks(parsed, script_start, script_end, Len(parsed))
        IN  /\ script = with_ticks
            /\ bins = Reactor_init(0, n, 0)
            /\ last_time_used = 0
            /\ recorder = record_num_bins(
                              Recorder_init(TIME_BETWEEN_ADAPTATION, script_end), n, 0)
            /\ pc = "run"
            /\ failure = "none"
            /\ curr_item = NoItem
            /\ next_ord = Len(with_ticks)
            /\ ledger = [id \in RequestIds(parsed) |->
                            [quantity |-> parsed[id + 1].quantity,
                             outcome |-> "waiting", reserved |-> 0, probes |-> 0,
                             returned |-> 0, events |-> 0,
                             probed |-> <<>>, gave_up |-> 0, checked |-> <<>>]]
            /\ restocked = 0
            /\ ret = NoRet
            /\ calls = <<>>
            /\ adaptor = PIAdaptor_init

\* one run of perform_experiment, alone
Setup(W, N) == Experiment(W, N) /\ twin = NoTwin

Init == Setup(Workloads, 1..MaxBins)

\* ------------------------------------------------- perform_experiment's loop
\* The state as one record, so that a handler is a function from state to state.
State ==
    [script |-> script, bins |-> bins, last_time_used |-> last_time_used,
     recorder |-> recorder, pc |-> pc, failure |-> failure, curr_item |-> curr_item,
     next_ord |-> next_ord, ledger |-> ledger, restocked |-> restocked, ret |-> ret]

\* the loop ends once the list is empty
Lands(s) ==
    /\ script' = s.script
    /\ bins' = s.bins
    /\ last_time_used' = s.last_time_used
    /\ recorder' = s.recorder
    /\ pc' = (IF s.pc = "run" /\ s.script = <<>> THEN "done" ELSE s.pc)
    /\ failure' = s.failure
    /\ curr_item' = s.curr_item
    /\ next_ord' = s.next_ord
    /\ ledger' = s.ledger
    /\ restocked' = s.restocked
    /\ ret' = s.ret

\* the state a handler leaves
Becomes(s) == Lands(s) /\ UNCHANGED <<calls, adaptor, twin>>

\* an uncaught exception ends the run
Fatal(s, why) == [s EXCEPT !.pc = "failed", !.failure = why]

\* curr_item = script[0]; del script[0]
Pop(s) == [s EXCEPT !.curr_item = Head(s.script), !.script = Tail(s.script)]

\* insert_action_sorted(script, action) by the loop, action being scheduled now
Schedule(s, action) ==
    [s EXCEPT !.script = insert_action_sorted(s.script, [action EXCEPT !.ord = s.next_ord]),
              !.next_ord = @ + 1]

\* recorder.record_event(...) as the loop calls it, for request id
RecordEvent(s, id, queue_time, service_time, bins_checked, timestamp) ==
    LET e == record_event_error(s.recorder, bins_checked, timestamp)
    IN  IF e # "none" THEN Fatal(s, "record_event_" \o e)
        ELSE [s EXCEPT
                 !.recorder = record_event(@, queue_time, service_time,
                                 stock_available(s.bins), bins_checked, timestamp),
                 !.ledger[id].events = @ + 1,
                 !.ledger[id].checked = Append(@, bins_checked)]

\* rctr.add_stock(quantity, timestamp) with no bin ids: order is what the
\* shuffle leaves of range(len(bins))
AddStock(s, quantity, timestamp, order, svc) ==
    IF ~WatermarkOk(timestamp, s.last_time_used) THEN Fatal(s, "watermark")
    ELSE [s EXCEPT
             !.last_time_used = timestamp,
             !.bins = Reactor_add_stock(@, quantity, timestamp, order, svc),
             !.ret = [op |-> "add_stock", quantity |-> quantity, timestamp |-> timestamp,
                      order |-> order,
                      shares |-> add_stock_shares(s.bins, quantity, order)]]

\* rctr.reserve_stock(quantity, timestamp, service_bin_id) for request id
ReserveStock(s, id, quantity, timestamp, service_bin_id, service_time) ==
    IF ~WatermarkOk(timestamp, s.last_time_used) THEN Fatal(s, "watermark")
    ELSE LET r == Reactor_reserve_stock(s.bins, quantity, timestamp,
                                        service_bin_id, service_time)
         IN  [s EXCEPT
                 !.last_time_used = timestamp,
                 !.bins = r.bins,
                 !.ledger[id].reserved = @ + r.quantity_reserved,
                 !.ledger[id].probes = @ + 1,
                 !.ledger[id].probed = Append(@, [bin |-> service_bin_id,
                                                  size |-> num_bins(s.bins)]),
                 !.ret = [op |-> "reserve_stock", quantity |-> quantity,
                          timestamp |-> timestamp,
                          queue_time |-> r.queue_time,
                          service_time |-> r.service_time,
                          service_bin_id |-> r.service_bin_id,
                          quantity_reserved |-> r.quantity_reserved,
                          stock_before |-> remaining_stock(s.bins[service_bin_id + 1])]]

\* what stops the reads of the AdaptNow branch before the controller is called
adapt_inputs_error(rec, bs, timestamp) ==
    IF point_query_error(rec, timestamp) # "none" THEN "index"
    ELSE IF get_request_rate_at_error(rec, timestamp) # "none" THEN "index"
    ELSE avg_utilization_error(bs, Max(0, timestamp - TIME_BETWEEN_ADAPTATION), timestamp)

\* the AdaptNow branch: new_bin_num is the controller's answer
adapt_step(s0, new_bin_num, service_time) ==
    LET s == Pop(s0)
        ts == s.curr_item.timestamp
        e == adapt_inputs_error(s.recorder, s.bins, ts)
    IN  IF e # "none" THEN Fatal(s, e)
        ELSE IF ~(1 < new_bin_num /\ new_bin_num < ADAPT_LIMIT)
             THEN Fatal([s EXCEPT !.ret = [op |-> "adapt", new_bin_num |-> new_bin_num,
                                           bins_before |-> Len(s.bins)]],
                        "adapt_assert")
        ELSE IF ~WatermarkOk(ts, s.last_time_used) THEN Fatal(s, "watermark")
        ELSE LET r == Reactor_reshape_num_bins(s.bins, new_bin_num, ts, service_time)
                 s1 == [s EXCEPT !.last_time_used = ts,
                                 !.bins = r.bins,
                                 !.ret = [op |-> "reshape_num_bins", num_bins |-> new_bin_num,
                                          timestamp |-> ts, completed |-> r.completed,
                                          stock_before |-> stock_available(s.bins),
                                          bins_before |-> Len(s.bins)]]
                 e2 == record_num_bins_error(s1.recorder, new_bin_num, ts)
             IN  IF e2 # "none" THEN Fatal(s1, "record_num_bins_" \o e2)
                 ELSE [s1 EXCEPT !.recorder = record_num_bins(@, new_bin_num, ts)]

\* the ReturnInventoryRequest branch
return_step(s0, order, svc) ==
    LET s == Pop(s0)
        item == s.curr_item
        id == item.original_request.request_id
        s1 == AddStock(s, item.quantity, item.timestamp, order, svc)
    IN  IF s1.pc = "failed" THEN s1
        ELSE RecordEvent([s1 EXCEPT !.ledger[id].outcome = "returned",
                                    !.ledger[id].returned = @ + item.quantity],
                         id, item.queue_time, item.service_time,
                         item.bins_checked, item.timestamp)

\* the InventoryRestock branch
restock_step(s0, order, svc) ==
    LET s == Pop(s0)
        item == s.curr_item
        s1 == AddStock(s, item.quantity, item.timestamp, order, svc)
        e == record_restock_error(s1.recorder, item.timestamp)
    IN  IF s1.pc = "failed" THEN s1
        ELSE IF e # "none" THEN Fatal(s1, "record_restock_" \o e)
        ELSE [s1 EXCEPT !.restocked = @ + item.quantity,
                        !.recorder = record_restock(@, item.timestamp)]

\* the RetryInventoryRequest branch, all bins tried: give up
give_up_step(s0) ==
    LET s == Pop(s0)
        item == s.curr_item
    IN  IF ~(item.original_request.quantity > item.reserved_so_far)
        THEN Fatal(s, "retry_assert")
        ELSE Schedule([s EXCEPT !.ledger[item.original_request.request_id].gave_up =
                                    num_bins(s.bins)],
                      ReturnInventoryRequest(item.original_request,
                          item.reserved_so_far, item.queue_time_so_far,
                          item.service_time_so_far, item.bins_checked, item.timestamp, 0))

\* a slip: the count of bins checked is left out of the sum
next_bin_first_again(first_bin_checked, bins_checked, n) == first_bin_checked % n

\* next_bin = (first_bin_checked + bins_checked) % rctr.num_bins()
next_bin(first_bin_checked, bins_checked, n) == (first_bin_checked + bins_checked) % n

\* the RetryInventoryRequest branch, a bin left to try
retry_step(s0, service_time) ==
    LET s == Pop(s0)
        item == s.curr_item
        orig == item.original_request
        id == orig.request_id
        bin == next_bin(item.first_bin_checked, item.bins_checked, num_bins(s.bins))
        s1 == ReserveStock(s, id, orig.quantity - item.reserved_so_far,
                           item.timestamp, bin, service_time)
        queue_time_so_far == item.queue_time_so_far + s1.ret.queue_time
        service_time_so_far == item.service_time_so_far + s1.ret.service_time
        completed_time == orig.timestamp + queue_time_so_far + service_time_so_far
    IN  IF ~(orig.quantity > item.reserved_so_far) THEN Fatal(s, "retry_assert")
        ELSE IF s1.pc = "failed" THEN s1
        ELSE IF s1.ret.quantity_reserved + item.reserved_so_far = orig.quantity
        THEN RecordEvent([s1 EXCEPT !.ledger[id].outcome = "satisfied"], id,
                         queue_time_so_far, service_time_so_far,
                         item.bins_checked + 1, completed_time)
        ELSE Schedule(s1, [item EXCEPT !.queue_time_so_far = queue_time_so_far,
                                       !.service_time_so_far = service_time_so_far,
                                       !.bins_checked = @ + 1,
                                       !.timestamp = completed_time])

\* the InventoryRequest branch: service_bin_id is the pool's random pick
request_step(s0, service_bin_id, service_time) ==
    LET s == Pop(s0)
        item == s.curr_item
        id == item.request_id
        e == record_start_request_error(s.recorder, item.timestamp)
        s1 == [s EXCEPT !.recorder = record_start_request(@, item.timestamp)]
        s2 == ReserveStock(s1, id, item.quantity, item.timestamp,
                           service_bin_id, service_time)
        qty == s2.ret.quantity_reserved
        queue_time == s2.ret.queue_time
        completed == item.timestamp + queue_time + s2.ret.service_time
    IN  IF e # "none" THEN Fatal(s, "record_start_request_" \o e)
        ELSE IF s2.pc = "failed" THEN s2
        ELSE IF ~(qty <= item.quantity) THEN Fatal(s2, "qty_assert")
        ELSE IF qty # item.quantity
        THEN IF ~RetryInventoryRequest_ok(item, qty, service_bin_id, completed)
             THEN Fatal(s2, "retry_init_assert")
             ELSE Schedule([s2 EXCEPT !.ledger[id].outcome = "retrying"],
                           RetryInventoryRequest(item, qty, service_bin_id, queue_time,
                               s2.ret.service_time, completed, 0))
        ELSE RecordEvent([s2 EXCEPT !.ledger[id].outcome = "satisfied"], id,
                         queue_time, s2.ret.service_time, 1, completed)

Running(type) == pc = "run" /\ script # <<>> /\ Head(script).type = type

BinIds == 0..(Len(bins) - 1)

\* One turn of the loop for each kind of action at the head of the list; S is
\* the set of service times the random sources may draw, A the set of bin
\* counts the controller may answer.
StepAdaptNow(S, A) ==
    /\ Running("AdaptNow")
    /\ \E new_bin_num \in A, service_time \in S :
           Becomes(adapt_step(State, new_bin_num, service_time))

StepReturn(S) ==
    /\ Running("ReturnInventoryRequest")
    /\ \E order \in Perms(Len(bins)), svc \in [BinIds -> S] :
           Becomes(return_step(State, order, svc))

StepRestock(S) ==
    /\ Running("InventoryRestock")
    /\ \E order \in Perms(Len(bins)), svc \in [BinIds -> S] :
           Becomes(restock_step(State, order, svc))

StepGiveUp ==
    /\ Running("RetryInventoryRequest")
    /\ Head(script).bins_checked >= num_bins(bins)
    /\ Becomes(give_up_step(State))

StepRetry(S) ==
    /\ Running("RetryInventoryRequest")
    /\ ~(Head(script).bins_checked >= num_bins(bins))
    /\ \E service_time \in S : Becomes(retry_step(State, service_time))

StepRequest(S) ==
    /\ Running("InventoryRequest")
    /\ \E service_bin_id \in BinIds, service_time \in S :
           Becomes(request_step(State, service_bin_id, service_time))

Next ==
    \/ StepAdaptNow(SvcTimes, AdaptOutputs)
    \/ StepReturn(SvcTimes)
    \/ StepRestock(SvcTimes)
    \/ StepGiveUp
    \/ StepRetry(SvcTimes)
    \/ StepRequest(SvcTimes)

Spec == Init /\ [][Next]_vars

\* The loop never waits: a turn that can be taken is taken.
FairSpec == Spec /\ WF_vars(Next)

\* ---------------------------------------------------------------------------
\* The same loop under a controller that always answers the current bin count.
SameNext ==
    \/ StepAdaptNow(SvcTimes, {num_bins(bins)})
    \/ StepReturn(SvcTimes)
    \/ StepRestock(SvcTimes)
    \/ StepGiveUp
    \/ StepRetry(SvcTimes)
    \/ StepRequest(SvcTimes)

SameSpec == Init /\ [][SameNext]_vars

\* ---------------------------------------------------------------------------
\* The same loop on a pool of three bins, with longer workloads at two
\* timestamps and every service time one time unit.
DeepScript == 3
DeepBins == 3
DeepTimes == {0, 1}
DeepSvc == {1}
DeepWorkloads ==
    {w \in UNION {[1..n -> [kind : {"-", "+"}, timestamp : DeepTimes, quantity : Qtys]] :
                     n \in 1..DeepScript} :
        \A i \in 1..(Len(w) - 1) : w[i].timestamp <= w[i + 1].timestamp}

DeepInit == Setup(DeepWorkloads, {DeepBins})

DeepNext ==
    \/ StepAdaptNow(DeepSvc, 1..DeepBins)
    \/ StepReturn(DeepSvc)
    \/ StepRestock(DeepSvc)
    \/ StepGiveUp
    \/ StepRetry(DeepSvc)
    \/ StepRequest(DeepSvc)

DeepSpec == DeepInit /\ [][DeepNext]_vars

\* ---------------------------------------------------------------------------
\* The same loop on workloads longer than TIME_BETWEEN_ADAPTATION, so that a
\* second AdaptNow falls between the retries of a request: lines at 0, 9 and
\* 12, pools of two or three bins, every service time one time unit.
TickScript == 3
TickBins == 3
TickTimes == {0, TIME_BETWEEN_ADAPTATION - 1, TIME_BETWEEN_ADAPTATION + 2}
TickWorkloads ==
    {w \in UNION {[1..n -> [kind : {"-", "+"}, timestamp : TickTimes, quantity : Qtys]] :
                     n \in 1..TickScript} :
        \A i \in 1..(Len(w) - 1) : w[i].timestamp <= w[i + 1].timestamp}

TickInit == Setup(TickWorkloads, 2..TickBins)

TickNext ==
    \/ StepAdaptNow(DeepSvc, 1..TickBins)
    \/ StepReturn(DeepSvc)
    \/ StepRestock(DeepSvc)
    \/ StepGiveUp
    \/ StepRetry(DeepSvc)
    \/ StepRequest(DeepSvc)

TickSpec == TickInit /\ [][TickNext]_vars

\* ---------------------------------------------------------------------------
\* The pool on its own: a Reactor built with some stock, then called directly,
\* at most MaxCalls times, with any quantity and any timestamp near the
\* watermark (also one below it, which the opening assertion refuses).
MaxCalls == 2
PoolBins == 3
PoolQty == 4
PoolStock == 2
MaxDt == 1

\* latest time a utilization window may name
MaxWindow == 3
Windows == {w \in (0..MaxWindow) \X (0..MaxWindow) : w[1] <= w[2]}

CallTimes == Max(0, last_time_used - 1)..(last_time_used + MaxDt)

StocksOf(bs) == [i \in 1..Len(bs) |-> remaining_stock(bs[i])]

\* sorted(service_bin_ids), the ids being distinct
RECURSIVE sorted(_)
sorted(ids) ==
    IF ids = <<>> THEN <<>>
    ELSE LET m == CHOOSE x \in {ids[i] : i \in 1..Len(ids)} :
                      \A i \in 1..Len(ids) : x <= ids[i]
             k == CHOOSE i \in 1..Len(ids) : ids[i] = m
         IN  <<m>> \o sorted(SubSeq(ids, 1, k - 1) \o SubSeq(ids, k + 1, Len(ids)))

PoolInit ==
    \E stock \in 0..PoolStock, n \in 1..PoolBins :
        /\ bins = Reactor_init(stock, n, 0)
        /\ last_time_used = 0
        /\ script = <<>>
        /\ recorder = Recorder_init(TIME_BETWEEN_ADAPTATION, 0)
        /\ pc = "run"
        /\ failure = "none"
        /\ curr_item = NoItem
        /\ next_ord = 0
        /\ ledger = <<>>
        /\ restocked = 0
        /\ ret = NoRet
        /\ calls = <<>>
        /\ twin = NoTwin
        /\ adaptor = PIAdaptor_init

CanCall == pc = "run" /\ Len(calls) < MaxCalls

\* what a call leaves: the assertion failed, or the pool as changed by r
Called(timestamp, call, new_bins) ==
    /\ UNCHANGED <<script, recorder, curr_item, next_ord, ledger, restocked, adaptor, twin>>
    /\ IF ~WatermarkOk(timestamp, last_time_used)
       THEN /\ pc' = "failed" /\ failure' = "watermark"
            /\ calls' = Append(calls, [op |-> "refused", call |-> call.op,
                                       timestamp |-> timestamp])
            /\ UNCHANGED <<bins, last_time_used, ret>>
       ELSE /\ pc' = pc /\ failure' = failure
            /\ bins' = new_bins
            /\ last_time_used' = timestamp
            /\ ret' = call
            /\ calls' = Append(calls, [call EXCEPT !.after = StocksOf(new_bins)])

\* rctr.reserve_stock(quantity, timestamp, service_bin_id), the bin given or picked
CallReserveStock ==
    /\ CanCall
    /\ \E quantity \in 0..PoolQty, timestamp \in CallTimes,
          service_bin_id \in BinIds, service_time \in SvcTimes :
          LET r == Reactor_reserve_stock(bins, quantity, timestamp,
                                         service_bin_id, service_time)
          IN  Called(timestamp,
                     [op |-> "reserve_stock", quantity |-> quantity,
                      timestamp |-> timestamp, queue_time |-> r.queue_time,
                      service_time |-> r.service_time,
                      service_bin_id |-> r.service_bin_id,
                      quantity_reserved |-> r.quantity_reserved,
                      before |-> StocksOf(bins), after |-> <<>>],
                     r.bins)

\* rctr.add_stock(quantity, timestamp) with no bin ids
CallAddStock ==
    /\ CanCall
    /\ \E quantity \in 0..PoolQty, timestamp \in CallTimes,
          order \in Perms(Len(bins)), svc \in [BinIds -> SvcTimes] :
          Called(timestamp,
                 [op |-> "add_stock", quantity |-> quantity, timestamp |-> timestamp,
                  order |-> order,
                  shares |-> add_stock_shares(bins, quantity, order),
                  returned |-> sorted(order),
                  before |-> StocksOf(bins), after |-> <<>>],
                 Reactor_add_stock(bins, quantity, timestamp, order, svc))

\* rctr.reshape_num_bins(num, timestamp)
CallReshape ==
    /\ CanCall
    /\ \E num \in 1..PoolBins, timestamp \in CallTimes, service_time \in SvcTimes :
          LET r == Reactor_reshape_num_bins(bins, num, timestamp, service_time)
          IN  Called(timestamp,
                     [op |-> "reshape_num_bins", num_bins |-> num,
                      timestamp |-> timestamp, completed |-> r.completed,
                      draws |-> r.draws,
                      before |-> StocksOf(bins), after |-> <<>>],
                     r.bins)

\* rctr.avg_utilization(since, to): a query, it changes nothing in the pool;
\* percents are the quotients the bins return, summed and divided by the caller
CallAvgUtilization ==
    /\ CanCall
    /\ UNCHANGED <<script, recorder, curr_item, next_ord, ledger, restocked,
                   bins, last_time_used, adaptor, twin>>
    /\ \E w \in Windows :
          LET e == avg_utilization_error(bins, w[1], w[2])
              call == [op |-> "avg_utilization", since |-> w[1], to |-> w[2],
                       percents |-> IF e # "none" THEN <<>>
                                    ELSE [i \in 1..Len(bins) |->
                                             utilization_percent(bins[i], w[1], w[2])]]
          IN  /\ ret' = call
              /\ calls' = Append(calls, call)
              /\ pc' = (IF e # "none" THEN "failed" ELSE pc)
              /\ failure' = (IF e # "none" THEN e ELSE failure)

PoolNext ==
    \/ CallReserveStock
    \/ CallAddStock
    \/ CallReshape
    \/ CallAvgUtilization

PoolSpec == PoolInit /\ [][PoolNext]_vars

\* ---------------------------------------------------------------------------
\* The pool called with bin ids: add_stock with a list of distinct ids of its
\* bins, reserve_stock with one id or with None.
IdsQty == 3

IdLists ==
    {o \in UNION {[1..k -> BinIds] : k \in 1..Len(bins)} :
        \A i \in 1..Len(o), j \in 1..Len(o) : i # j => o[i] # o[j]}

\* rctr.add_stock(quantity, timestamp, service_bin_ids): order is the list as
\* the shuffle leaves it
CallAddStockIds ==
    /\ CanCall
    /\ \E quantity \in 0..IdsQty, timestamp \in CallTimes, order \in IdLists :
       \E svc \in {f \in [BinIds -> SvcTimes] :
                      \A b \in BinIds \ {order[i] : i \in 1..Len(order)} : f[b] = 0} :
          Called(timestamp,
                 [op |-> "add_stock", quantity |-> quantity, timestamp |-> timestamp,
                  order |-> order,
                  shares |-> add_stock_shares(bins, quantity, order),
                  returned |-> sorted(order),
                  before |-> StocksOf(bins), after |-> <<>>],
                 Reactor_add_stock(bins, quantity, timestamp, order, svc))

\* rctr.reserve_stock(quantity, timestamp, service_bin_id), the id given or None
CallReserveStockId ==
    /\ CanCall
    /\ \E quantity \in 0..IdsQty, timestamp \in CallTimes,
          given \in BinIds \cup {None}, drawn \in BinIds, service_time \in SvcTimes :
          LET picked == pick_bin(given, drawn)
              r == Reactor_reserve_stock(bins, quantity, timestamp,
                                         picked.service_bin_id, service_time)
          IN  Called(timestamp,
                     [op |-> "reserve_stock", quantity |-> quantity,
                      timestamp |-> timestamp, given |-> given,
                      draws |-> picked.draws,
                      queue_time |-> r.queue_time,
                      service_time |-> r.service_time,
                      service_bin_id |-> r.service_bin_id,
                      quantity_reserved |-> r.quantity_reserved,
                      before |-> StocksOf(bins), after |-> <<>>],
                     r.bins)

IdsNext ==
    \/ CallAddStockIds
    \/ CallReserveStockId

IdsSpec == PoolInit /\ [][IdsNext]_vars

\* ---------------------------------------------------------------------------
\* The recorder on its own: a Recorder built for some experiment end, then
\* called directly, at most MaxRecCalls times.  The timestamps fall in buckets
\* 0, 1, 1024 (the initial capacity) and 2048 (twice that).
MaxRecCalls == 3
RecTimes == {0, 5, 10, 10 * INITIAL_CAPACITY, 20 * INITIAL_CAPACITY}
RecEnds == {10, 20 * INITIAL_CAPACITY}
Numerators == {"service_time_numerator", "queue_waiting_numerator",
               "stock_numerator", "checked_numerator"}

RecInit ==
    \E script_end \in RecEnds :
        /\ recorder = Recorder_init(TIME_BETWEEN_ADAPTATION, script_end)
        /\ bins = <<>>
        /\ last_time_used = 0
        /\ script = <<>>
        /\ pc = "run"
        /\ failure = "none"
        /\ curr_item = NoItem
        /\ next_ord = 0
        /\ ledger = <<>>
        /\ restocked = 0
        /\ ret = NoRet
        /\ calls = <<>>
        /\ twin = NoTwin
        /\ adaptor = PIAdaptor_init

CanCallRec == pc = "run" /\ Len(calls) < MaxRecCalls

\* what a call of the recorder leaves: it raised e, or the recorder became rec
RecCalled(call, e, rec) ==
    /\ UNCHANGED <<script, bins, last_time_used, curr_item, next_ord, ledger, restocked,
                   adaptor, twin>>
    /\ ret' = [call EXCEPT !.before = recorder]
    /\ calls' = Append(calls, IF call.op = "point_query" THEN call ELSE [op |-> call.op])
    /\ IF e # "none"
       THEN pc' = "failed" /\ failure' = call.op \o "_" \o e /\ UNCHANGED recorder
       ELSE pc' = pc /\ failure' = failure /\ recorder' = rec

\* recorder.record_event(queue_time, service_time, stock_left, bins_checked, timestamp)
CallRecordEvent ==
    /\ CanCallRec
    /\ \E timestamp \in RecTimes, queue_time \in SvcTimes, stock_left \in 0..1,
          bins_checked \in 1..2 :
          RecCalled([op |-> "record_event", timestamp |-> timestamp,
                     queue_time |-> queue_time, service_time |-> 1,
                     stock_left |-> stock_left, bins_checked |-> bins_checked,
                     before |-> <<>>],
                    record_event_error(recorder, bins_checked, timestamp),
                    record_event(recorder, queue_time, 1, stock_left,
                                 bins_checked, timestamp))

\* recorder.record_restock(timestamp)
CallRecordRestock ==
    /\ CanCallRec
    /\ \E timestamp \in RecTimes :
          RecCalled([op |-> "record_restock", timestamp |-> timestamp, before |-> <<>>],
                    record_restock_error(recorder, timestamp),
                    record_restock(recorder, timestamp))

\* one of the four point queries, for a time up to the experiment's end
CallPointQuery ==
    /\ CanCallRec
    /\ \E timestamp \in {t \in RecTimes : t <= recorder.script_end},
          numerator \in Numerators :
          LET e == point_query_error(recorder, timestamp)
          IN  RecCalled([op |-> "point_query", numerator |-> numerator,
                         timestamp |-> timestamp,
                         value |-> IF e # "none" THEN <<>>
                                   ELSE point_query(recorder, numerator, timestamp),
                         before |-> <<>>],
                        e, point_query_after(recorder, timestamp))

RecNext ==
    \/ CallRecordEvent
    \/ CallRecordRestock
    \/ CallPointQuery

RecSpec == RecInit /\ [][RecNext]_vars

\* ---------------------------------------------------------------------------
\* The recorder near the start of a bucket: sample rates of 10 and 20, events
\* and point queries at times around the first two bucket starts.
SampleRates == {TIME_BETWEEN_ADAPTATION, 2 * TIME_BETWEEN_ADAPTATION}
BucketTimes ==
    {0, 1, 2, 2 * TIME_BETWEEN_ADAPTATION, 2 * TIME_BETWEEN_ADAPTATION + 1,
     2 * TIME_BETWEEN_ADAPTATION + 2}

BucketInit ==
    \E sample_rate \in SampleRates :
        /\ recorder = Recorder_init(sample_rate, 4 * TIME_BETWEEN_ADAPTATION)
        /\ bins = <<>>
        /\ last_time_used = 0
        /\ script = <<>>
        /\ pc = "run"
        /\ failure = "none"
        /\ curr_item = NoItem
        /\ next_ord = 0
        /\ ledger = <<>>
        /\ restocked = 0
        /\ ret = NoRet
        /\ calls = <<>>
        /\ twin = NoTwin
        /\ adaptor = PIAdaptor_init

\* recorder.record_event(queue_time, service_time, stock_left, bins_checked, timestamp)
CallRecordEventNear ==
    /\ CanCallRec
    /\ \E timestamp \in BucketTimes, queue_time \in 1..2 :
          RecCalled([op |-> "record_event", timestamp |-> timestamp,
                     queue_time |-> queue_time, service_time |-> 1,
                     stock_left |-> 1, bins_checked |-> 1, before |-> <<>>],
                    record_event_error(recorder, 1, timestamp),
                    record_event(recorder, queue_time, 1, 1, 1, timestamp))

\* one of the four point queries
CallPointQueryNear ==
    /\ CanCallRec
    /\ \E timestamp \in BucketTimes, numerator \in Numerators :
          LET e == point_query_error(recorder, timestamp)
          IN  RecCalled([op |-> "point_query", numerator |-> numerator,
                         timestamp |-> timestamp,
                         value |-> IF e # "none" THEN <<>>
                                   ELSE point_query(recorder, numerator, timestamp),
                         before |-> <<>>],
                        e, point_query_after(recorder, timestamp))

BucketNext ==
    \/ CallRecordEventNear
    \/ CallPointQueryNear

BucketSpec == BucketInit /\ [][BucketNext]_vars

\* ---------------------------------------------------------------------------
\* Two runs of perform_experiment side by side, on the same workload, with the
\* same initial pool size, the same seed and the same controller. The variables
\* of the loop hold the first run and twin.run the second; the runs take their
\* turns of the loop in any interleaving. twin.tape[k] is what the random
\* sources and the controller yielded in turn k of the run that got there
\* first, twin.turns the turns each run has taken, twin.log the actions each
\* run has processed.

\* a slip: the sources are not seeded, so a run may draw anything
unseeded_draws(tape, k, any) == any

\* self.rand.seed(seed): what may be drawn in turn k. A source seeded as in
\* another run repeats that run's draws, position by position; the first run
\* to get to turn k may draw anything in any
seeded_draws(tape, k, any) == IF k <= Len(tape) THEN {tape[k]} ELSE any

\* what a turn of the loop may draw in state s: the controller's answer in A,
\* a service time in S, the shuffled order of the bins, a service time in T per
\* bin that stock is added to, and the pool's pick of a bin, each only for the
\* action kinds that use it
Draws(s, S, T, A) ==
    LET type == Head(s.script).type
        ids == 0..(Len(s.bins) - 1)
        adds == type \in {"ReturnInventoryRequest", "InventoryRestock"}
        gives_up == /\ type = "RetryInventoryRequest"
                    /\ Head(s.script).bins_checked >= num_bins(s.bins)
    IN  [new_bin_num : IF type = "AdaptNow" THEN A ELSE {0},
         service_time : IF adds \/ gives_up THEN {0} ELSE S,
         order : IF adds THEN Perms(Len(s.bins)) ELSE {<<>>},
         svc : IF adds THEN [ids -> T] ELSE {<<>>},
         service_bin_id : IF type = "InventoryRequest" THEN ids ELSE {0}]

\* one turn of the while loop of perform_experiment from state s, d being
\* what is drawn in it
loop_turn(s, d) ==
    LET head == Head(s.script)
        t == CASE head.type = "AdaptNow" ->
                      adapt_step(s, d.new_bin_num, d.service_time)
               [] head.type = "ReturnInventoryRequest" ->
                      return_step(s, d.order, d.svc)
               [] head.type = "InventoryRestock" ->
                      restock_step(s, d.order, d.svc)
               [] head.type = "RetryInventoryRequest" ->
                      IF head.bins_checked >= num_bins(s.bins)
                      THEN give_up_step(s)
                      ELSE retry_step(s, d.service_time)
               [] OTHER ->
                      request_step(s, d.service_bin_id, d.service_time)
    IN  IF t.pc = "run" /\ t.script = <<>> THEN [t EXCEPT !.pc = "done"] ELSE t

\* while len(script) > 0, in a run that has not failed
CanTurn(s) == s.pc = "run" /\ s.script # <<>>

\* the twin after run i, in state s, has taken a turn drawing d
Turned(i, s, d) ==
    LET k == twin.turns[i] + 1
    IN  [twin EXCEPT
            !.turns[i] = k,
            !.log[i] = Append(@, [type |-> Head(s.script).type,
                                  timestamp |-> Head(s.script).timestamp]),
            !.tape = IF k <= Len(@) THEN @ ELSE Append(@, d)]

\* workloads of up to TwinScript records at times 0 and 1, on TwinBins bins
TwinScript == 2
TwinBins == 2
TwinTimes == {0, 1}
TwinWorkloads ==
    {w \in UNION {[1..n -> [kind : {"-", "+"}, timestamp : TwinTimes, quantity : 1..MaxQty]] :
                     n \in 1..TwinScript} :
        \A i \in 1..(Len(w) - 1) : w[i].timestamp <= w[i + 1].timestamp}

TwinInit ==
    /\ Experiment(TwinWorkloads, {TwinBins})
    /\ twin = [run |-> State, turns |-> <<0, 0>>, log |-> <<<<>>, <<>>>>,
               tape |-> <<>>]

\* the first run takes a turn of the loop
TurnFirst ==
    /\ CanTurn(State)
    /\ \E d \in seeded_draws(twin.tape, twin.turns[1] + 1,
                             Draws(State, SvcTimes, DeepSvc, 1..(TwinBins + 1))) :
          /\ Lands(loop_turn(State, d))
          /\ twin' = Turned(1, State, d)
          /\ UNCHANGED <<calls, adaptor>>

\* the second run takes a turn of the loop
TurnSecond ==
    /\ CanTurn(twin.run)
    /\ \E d \in seeded_draws(twin.tape, twin.turns[2] + 1,
                             Draws(twin.run, SvcTimes, DeepSvc, 1..(TwinBins + 1))) :
          /\ twin' = [Turned(2, twin.run, d) EXCEPT !.run = loop_turn(twin.run, d)]
          /\ UNCHANGED <<script, bins, last_time_used, recorder, pc, failure,
                         curr_item, next_ord, ledger, restocked, ret, calls,
                         adaptor>>

TwinNext ==
    \/ TurnFirst
    \/ TurnSecond

TwinSpec == TwinInit /\ [][TwinNext]_vars

\* ---------------------------------------------------------------------------
\* The PI controller on its own: a PIAdaptor called at most MaxAdaptCalls times
\* with any bin count up to PIBins and any utilization from 0 to 1, in tenths.
MaxAdaptCalls == 3
PIBins == 3
Utilizations == {0, 1, 2, 5, 10}

PIInit ==
    /\ adaptor = PIAdaptor_init
    /\ recorder = Recorder_init(TIME_BETWEEN_ADAPTATION, 0)
    /\ bins = <<>>
    /\ last_time_used = 0
    /\ script = <<>>
    /\ pc = "run"
    /\ failure = "none"
    /\ curr_item = NoItem
    /\ next_ord = 0
    /\ ledger = <<>>
    /\ restocked = 0
    /\ ret = NoRet
    /\ calls = <<>>
    /\ twin = NoTwin

\* adaptor.adapt(current_bins, ..., current_utilization, timestamp)
CallAdapt ==
    /\ pc = "run" /\ Len(calls) < MaxAdaptCalls
    /\ UNCHANGED <<script, bins, last_time_used, recorder, pc, failure, curr_item,
                   next_ord, ledger, restocked, twin>>
    /\ \E current_bins \in 1..PIBins, current_utilization \in Utilizations :
          LET r == PIAdaptor_adapt(adaptor, current_bins, current_utilization)
              call == [op |-> "adapt", current_bins |-> current_bins,
                       current_utilization |-> current_utilization,
                       result |-> r.result]
          IN  /\ adaptor' = r.adaptor
              /\ ret' = call
              /\ calls' = Append(calls, call)

PINext == CallAdapt

PISpec == PIInit /\ [][PINext]_vars

\* ---------------------------------------------------------------------------
\* The PID controller on its own: a PIDAdaptor built with any gains in 0..1
\* and either clamp, called at most MaxPIDCalls times at non-decreasing times
\* TIME_BETWEEN_ADAPTATION apart or equal.
MaxPIDCalls == 2
Gains == 0..1
Clamps == {<<-3, 3>>, <<0, 0>>}
PIDUtilizations == {0, 1, 3, 10}

PIDInit ==
    /\ \E kp \in Gains, ki \in Gains, kd \in Gains, c \in Clamps :
          adaptor = PIDAdaptor_init(kp, ki, kd, c[1], c[2])
    /\ recorder = Recorder_init(TIME_BETWEEN_ADAPTATION, 0)
    /\ bins = <<>>
    /\ last_time_used = 0
    /\ script = <<>>
    /\ pc = "run"
    /\ failure = "none"
    /\ curr_item = NoItem
    /\ next_ord = 0
    /\ ledger = <<>>
    /\ restocked = 0
    /\ ret = NoRet
    /\ calls = <<>>
    /\ twin = NoTwin

\* adaptor.adapt(current_bins, ..., current_utilization, timestamp)
CallPIDAdapt ==
    /\ pc = "run" /\ Len(calls) < MaxPIDCalls
    /\ UNCHANGED <<script, bins, last_time_used, recorder, pc, failure, curr_item,
                   next_ord, ledger, restocked, twin>>
    /\ \E current_bins \in 1..PIBins, current_utilization \in PIDUtilizations,
          timestamp \in {adaptor.previous_time,
                         adaptor.previous_time + TIME_BETWEEN_ADAPTATION} :
          LET r == PIDAdaptor_adapt(adaptor, current_bins, current_utilization, timestamp)
              call == [op |-> "adapt", current_bins |-> current_bins,
                       current_utilization |-> current_utilization,
                       timestamp |-> timestamp, before |-> adaptor,
                       error |-> r.error, integral |-> r.integral, dt |-> r.dt,
                       result |-> r.result]
          IN  /\ adaptor' = r.adaptor
              /\ ret' = call
              /\ calls' = Append(calls, call)

PIDNext == CallPIDAdapt

PIDSpec == PIDInit /\ [][PIDNext]_vars

\* ------------------------------------------------------------------ claims
Parsed(a) == a.type \in {"InventoryRequest", "InventoryRestock"}

SameTime(i, j) == script[i].timestamp = script[j].timestamp

C2_TimeOrder ==
    /\ failure # "watermark"
    /\ last_time_used <= curr_item.timestamp
    /\ \A i \in 1..Len(script) : script[i].timestamp >= curr_item.timestamp

\* C2 witness: a retry was re-inserted after a probe that had to queue.
C2_Witness ==
    /\ curr_item.type = "RetryInventoryRequest"
    /\ ret.op = "reserve_stock" /\ ret.queue_time > 0
    /\ \E i \in 1..Len(script) : script[i].type = "RetryInventoryRequest"
    /\ last_time_used > 0

\* C3: what a processed ReturnInventoryRequest put back equals all that was
\* reserved for its request over all the bins probed.
C3_ReturnsAllReserved ==
    \A id \in DOMAIN ledger :
        ledger[id].outcome = "returned" => ledger[id].returned = ledger[id].reserved

\* C4: a request taken as satisfied has withdrawn exactly its quantity, summed
\* over all its probes.
C4_SatisfiedTookExactly ==
    \A id \in DOMAIN ledger :
        ledger[id].outcome = "satisfied" => ledger[id].reserved = ledger[id].quantity

\* quantity held by the pending retries and returns
RECURSIVE Held(_)
Held(lst) ==
    IF lst = <<>> THEN 0
    ELSE (CASE Head(lst).type = "RetryInventoryRequest" -> Head(lst).reserved_so_far
            [] Head(lst).type = "ReturnInventoryRequest" -> Head(lst).quantity
            [] OTHER -> 0) + Held(Tail(lst))

RECURSIVE SumOver(_, _)
SumOver(f, S) ==
    IF S = {} THEN 0
    ELSE LET x == CHOOSE y \in S : TRUE IN f[x] + SumOver(f, S \ {x})

SatisfiedTotal ==
    SumOver([id \in DOMAIN ledger |->
                IF ledger[id].outcome = "satisfied" THEN ledger[id].quantity ELSE 0],
            DOMAIN ledger)

\* C5: between two turns of the loop, stock in the bins plus stock held by
\* pending retries and returns equals what was restocked minus what satisfied
\* requests asked for (the pool starts empty).
C5_StockConserved ==
    pc # "failed" =>
        stock_available(bins) + Held(script) = restocked - SatisfiedTotal

\* C6: unless the controller's answer is refused, the run ends with an empty
\* list and every request satisfied or returned.
C6_RunCompletes ==
    /\ pc = "failed" => failure = "adapt_assert"
    /\ pc = "done" =>
          /\ script = <<>>
          /\ \A id \in DOMAIN ledger : ledger[id].outcome \in {"satisfied", "returned"}


\* ---------------------------------------------------- claims about the pool
AddCalls == {k \in 1..Len(calls) : calls[k].op = "add_stock"}

\* the share of bin position p (id p-1) in add_stock call c
ShareOf(c, p) ==
    LET i == CHOOSE j \in 1..Len(c.order) : c.order[j] = p - 1 IN c.shares[i]

\* C7: the last reservation returned min(quantity, stock before), between 0
\* and the quantity asked, and left the bin with the stock before less that.
C7_ReserveTakesMin ==
    ret.op = "reserve_stock" =>
        LET p == ret.service_bin_id + 1
            stock_before == ret.before[p]
            r == ret.quantity_reserved
        IN  /\ r = Min(ret.quantity, stock_before)
            /\ 0 <= r /\ r <= ret.quantity /\ r <= stock_before
            /\ remaining_stock(bins[p]) = stock_before - r
            /\ failure \in {"none", "watermark"}

\* C7 witness: a partial reservation, more asked than the bin held
C7_Witness ==
    /\ ret.op = "reserve_stock"
    /\ 0 < ret.quantity_reserved /\ ret.quantity_reserved < ret.quantity
    /\ pc = "run"

\* C8: every add_stock raised each bin's stock by exactly the quantity handed
\* to that bin, and two add_stock calls in a row raised it by the sum of both.
C8_AddStockAdds ==
    /\ \A k \in AddCalls : \A p \in 1..Len(calls[k].before) :
           calls[k].after[p] = calls[k].before[p] + ShareOf(calls[k], p)
    /\ \A k \in AddCalls : (k + 1) \in AddCalls =>
           \A p \in 1..Len(calls[k].before) :
               calls[k + 1].after[p] =
                   calls[k].before[p] + ShareOf(calls[k], p) + ShareOf(calls[k + 1], p)

\* C8 witness: two add_stock calls in a row with positive shares, the second
\* arriving while a bin is still locked by the first
C8_Witness ==
    /\ Len(calls) = 2 /\ AddCalls = {1, 2}
    /\ calls[1].timestamp <= calls[2].timestamp
    /\ \E p \in 1..Len(bins) :
          /\ ShareOf(calls[1], p) > 0 /\ ShareOf(calls[2], p) > 0
          /\ calls[1].before[p] > 0
          /\ bins[p].locked_times[Len(bins[p].locked_times)][1] > calls[2].timestamp

\* C9 (as stated): the shares of an add_stock with no bin ids sum to the
\* quantity, differ from one another by at most 1, and all ids are returned
\* in ascending order.
C9_SharesDifferByOne ==
    \A k \in AddCalls :
        LET c == calls[k] IN
        /\ SumSeq(c.shares) = c.quantity
        /\ \A i, j \in 1..Len(c.shares) :
               c.shares[i] - c.shares[j] <= 1 /\ c.shares[j] - c.shares[i] <= 1
        /\ c.returned = [i \in 1..Len(c.before) |-> i - 1]

\* C9 (amended): the shares sum to the quantity; in shuffled order each bin
\* gets ceil(q/n) while that much is left, then one bin the remainder, the
\* rest nothing (10 over 3 bins: 4, 4, 2); each bin's stock rises by its
\* share; all ids are returned in ascending order.
C9_SharesCeilThenRest ==
    /\ add_stock_shares(Reactor_init(0, 3, 0), 10, <<0, 1, 2>>) = <<4, 4, 2>>
    /\ \A k \in AddCalls :
        LET c == calls[k]
            n == Len(c.before)
            per == Ceil(c.quantity, n)
        IN  /\ SumSeq(c.shares) = c.quantity
            /\ Len(c.shares) = n
            /\ \A i \in 1..n :
                   c.shares[i] = Max(0, Min(per, c.quantity - (i - 1) * per))
            /\ \A i \in 1..n :
                   c.after[c.order[i] + 1] = c.before[c.order[i] + 1] + c.shares[i]
            /\ c.returned = [i \in 1..n |-> i - 1]

\* C9 witness: 4 added to a pool of 3 bins, handed out as 2, 2, 0
C9_Witness ==
    /\ ret.op = "add_stock" /\ ret.quantity = 4 /\ Len(bins) = 3
    /\ ret.shares = <<2, 2, 0>>

\* C10: a reshape that changes the bin count leaves the total stock as it was,
\* no bin below 0, and as many bins as asked.
C10_ReshapeKeepsStock ==
    (ret.op = "reshape_num_bins" /\ ret.num_bins # Len(ret.before)) =>
        /\ stock_available(bins) = SumSeq(ret.before)
        /\ Len(bins) = ret.num_bins
        /\ \A p \in 1..Len(bins) : remaining_stock(bins[p]) >= 0

\* C10 witness: a reshape to a bin count that does not divide the stock
C10_Witness ==
    /\ ret.op = "reshape_num_bins" /\ ret.num_bins # Len(ret.before)
    /\ SumSeq(ret.before) > 0
    /\ SumSeq(ret.before) % ret.num_bins # 0
    /\ pc = "run"


\* ------------------------------------------------ claims about the AdaptNow tick
\* C11: a tick whose controller answers a bin count n >= 1 (below the upper
\* limit) ends without a fatal error, with the pool at n bins and <<tick
\* time, n>> the last sample of the pool-size history.
C11_AdaptAccepted ==
    curr_item.type = "AdaptNow" =>
        /\ ~(/\ pc = "failed" /\ failure = "adapt_assert"
             /\ ret.new_bin_num >= 1 /\ ret.new_bin_num < ADAPT_LIMIT)
        /\ pc # "failed" =>
              /\ ret.op = "reshape_num_bins"
              /\ Len(bins) = ret.num_bins
              /\ Last(recorder.bin_nums) = <<curr_item.timestamp, ret.num_bins>>

\* C12: under a controller that answers the current bin count every tick
\* ends without a fatal error, the pool keeps its initial size, and no bin is
\* replaced (a bin made by a reshape has one lock more than ledger entries).
C12_SameCountKeepsPool ==
    /\ curr_item.type = "AdaptNow" => pc # "failed"
    /\ Len(bins) = recorder.bin_nums[1][2]
    /\ \A i \in 1..Len(bins) : Len(bins[i].locked_times) = Len(bins[i].stock)


\* ------------------------------------------- claims about workload records
\* the events the recorder holds in the bucket of timestamp
RecordsAt(timestamp) ==
    At(recorder.num_records, bucket_index(timestamp, recorder.sample_rate))

\* C13: in a pool of one idle bin holding less than a request asks, the
\* request is probed without a fatal error, with queue time 0, taking all the
\* bin holds; it then gives up after that one probe, what was reserved is
\* returned, and one event of bins_checked 1 is recorded for it.
C13_OneBinGiveUp ==
    /\ (curr_item.type = "InventoryRequest" /\ Len(bins) = 1 /\ pc = "failed") =>
           ~(/\ curr_item.quantity > remaining_stock(bins[1])
             /\ next_unlocked(bins[1], curr_item.timestamp) = curr_item.timestamp)
    /\ (/\ curr_item.type = "InventoryRequest" /\ Len(bins) = 1 /\ pc # "failed"
        /\ ret.op = "reserve_stock" /\ ret.stock_before < curr_item.quantity
        /\ ret.queue_time = 0) =>
           /\ ret.quantity_reserved = ret.stock_before
           /\ remaining_stock(bins[1]) = 0
           /\ ledger[curr_item.request_id].outcome = "retrying"
    /\ (curr_item.type = "ReturnInventoryRequest" /\ Len(bins) = 1 /\ pc # "failed") =>
           LET l == ledger[curr_item.original_request.request_id]
           IN  /\ l.probes = 1 /\ l.returned = l.reserved /\ l.events = 1
               /\ curr_item.bins_checked = 1
               /\ RecordsAt(curr_item.timestamp) >= 1


\* C14: a workload record of any timestamp >= 0, a request arriving at 0
\* included, is processed without a fatal error.
C14_RecordAccepted ==
    (Parsed(curr_item) /\ curr_item.timestamp >= 0) => pc # "failed"


\* ---------------------------------------------------- claims about utilization
\* a quotient num / den that lies in [0, 1]
InUnit(q) ==
    IF q.den > 0 THEN 0 <= q.num /\ q.num <= q.den
    ELSE q.den < 0 /\ q.den <= q.num /\ q.num <= 0

\* C15: for every reachable pool and every window since <= to, each bin's
\* utilization_percent returns, without raising, a value in [0, 1], and 1
\* when to = since; avg_utilization never divides by zero.
C15_UtilizationInUnit ==
    /\ failure # "zero_division"
    /\ (ret.op = "avg_utilization" /\ pc # "failed") =>
           \A i \in 1..Len(ret.percents) :
               /\ InUnit(ret.percents[i])
               /\ ret.to = ret.since => ret.percents[i].num = ret.percents[i].den


\* ---------------------------------------------------- claims about the recorder
\* the bucket of the last call's timestamp
RetBucket == bucket_index(ret.timestamp, ret.before.sample_rate)

\* the buckets other than i in which rec or before holds something
OtherBuckets(rec, before, i) ==
    UNION {DOMAIN rec[a].val \cup DOMAIN before[a].val :
              a \in Numerators \cup {"num_records"}} \ {i}

\* the last record_event added one sample to bucket i and nothing elsewhere
EventRecorded(i) ==
    LET b == ret.before
    IN  /\ recorder.num_records.len > i
        /\ At(recorder.num_records, i) = At(b.num_records, i) + 1
        /\ At(recorder.queue_waiting_numerator, i) =
               At(b.queue_waiting_numerator, i) + ret.queue_time
        /\ At(recorder.service_time_numerator, i) =
               At(b.service_time_numerator, i) + ret.service_time
        /\ At(recorder.stock_numerator, i) = At(b.stock_numerator, i) + ret.stock_left
        /\ At(recorder.checked_numerator, i) =
               At(b.checked_numerator, i) + ret.bins_checked
        /\ \A j \in OtherBuckets(recorder, b, i) :
               \A a \in Numerators \cup {"num_records"} :
                   At(recorder[a], j) = At(b[a], j)

\* C16: record_event with a time up to script_end and a bucket below the
\* ceiling succeeds whatever was recorded before: storage grows until the
\* bucket fits, the bucket gains one sample and the four amounts, and the
\* other buckets stay as they were.
C16_RecordEventSucceeds ==
    (/\ ret.op = "record_event" /\ ret.timestamp <= ret.before.script_end
     /\ RetBucket < MAX_CAPACITY) =>
        /\ pc # "failed"
        /\ EventRecorded(RetBucket)

\* C17: a point query for a time from 0 up to the experiment's end never
\* raises, and returns 0 when the bucket it selects holds no samples.
C17_PointQueryZero ==
    ret.op = "point_query" =>
        /\ pc # "failed"
        /\ At(ret.before.num_records, point_query_index(ret.before, ret.timestamp)) = 0
               => ret.value = [num |-> 0, den |-> 1]

\* C19: record_event and record_restock with a time after script_end leave
\* the recorder as it was; with a time equal to script_end they record.
C19_PastEndIgnored ==
    ret.op \in {"record_event", "record_restock"} =>
        /\ ret.timestamp > ret.before.script_end =>
               pc # "failed" /\ recorder = ret.before
        /\ ret.timestamp = ret.before.script_end =>
               /\ pc # "failed"
               /\ IF ret.op = "record_event" THEN EventRecorded(RetBucket)
                  ELSE recorder.restocks = Append(ret.before.restocks, ret.timestamp)


\* ---------------------------------------------------- claims about the watermark
PoolOps == {"reserve_stock", "add_stock", "reshape_num_bins"}

\* C18: a call of reserve_stock, add_stock or reshape_num_bins is refused
\* exactly when its timestamp is earlier than the watermark, and then bins,
\* ledgers, lock histories and watermark stay as they were; a call that is
\* served sets the watermark to its timestamp, so the watermark never falls.
C18_WatermarkGuards ==
    [][/\ (pc' = "failed" /\ failure' = "watermark") =>
              /\ Last(calls').op = "refused" /\ Last(calls').call \in PoolOps
              /\ Last(calls').timestamp < last_time_used
              /\ bins' = bins /\ last_time_used' = last_time_used
       /\ (pc' = "run" /\ calls' # calls /\ Last(calls').op \in PoolOps) =>
              /\ Last(calls').timestamp >= last_time_used
              /\ last_time_used' = Last(calls').timestamp
       /\ last_time_used' >= last_time_used]_vars

\* C18 witness: after a call that moved the watermark and changed a bin, a
\* call with an earlier timestamp was refused
C18_Witness ==
    /\ pc = "failed" /\ failure = "watermark"
    /\ Len(calls) = 2 /\ calls[1].op \in PoolOps /\ calls[2].op = "refused"
    /\ calls[2].timestamp < last_time_used
    /\ \E i \in 1..Len(bins) : Len(bins[i].locked_times) > 1


\* ---------------------------------------------------- claims about the controller
\* the sum of (u - 0.1), in tenths, over the first k calls
RECURSIVE ErrorSum(_)
ErrorSum(k) ==
    IF k = 0 THEN 0 ELSE (calls[k].current_utilization - 1) + ErrorSum(k - 1)

\* x / 100 rounded to the nearest integer, a tie to the even one, by cases on
\* the sign of x
Nearest(x) ==
    IF (2 * x) % 200 = 100 THEN 2 * ((x + 50) \div 200)
    ELSE IF x >= 0 THEN (2 * x + 100) \div 200
    ELSE 0 - ((2 * (0 - x) + 100) \div 200)

\* C20: after k calls the accumulated error is the sum of (u_i - 0.1) over
\* all of them, the k-th call returned max(1, round(5 * (u_k - 0.1) + 0.4 *
\* accumulated) + current_bins), and every answer is at least 1.
C20_PIAdaptorAnswer ==
    /\ adaptor.accumulated_error = ErrorSum(Len(calls))
    /\ \A k \in 1..Len(calls) :
           LET c == calls[k]
               x == 50 * (c.current_utilization - 1) + 4 * ErrorSum(k)
           IN  /\ c.result >= 1
               /\ c.result = Max(1, Nearest(x) + c.current_bins)

\* C20 witness: three calls, the last one answered by the floor of 1 where
\* the sum alone would have been lower
C20_Witness ==
    /\ Len(calls) = 3
    /\ adaptor.accumulated_error < 0
    /\ calls[3].result = 1
    /\ Nearest(50 * (calls[3].current_utilization - 1) + 4 * adaptor.accumulated_error)
           + calls[3].current_bins < 1

\* the integer nearest to n / d for d > 0, the even one of two equally near
NearestRatio(n, d) ==
    LET near == ((n \div d) - 1)..((n \div d) + 1)
        dist(z) == IF n - z * d >= 0 THEN n - z * d ELSE z * d - n
    IN  CHOOSE z \in near :
            \A y \in near :
                \/ dist(z) < dist(y)
                \/ dist(z) = dist(y) /\ (z % 2 = 0 \/ y = z)

\* C21: every call of the PID controller has error = target - utilization
\* (target 0.1) and answers max(1, round(kp * error + ki * clamp(integral,
\* i_min, i_max) + kd * derivative) + current_count), where integral is the
\* running sum of the error and derivative is (error - previous error) / dt;
\* with kp = 1, ki = 0, kd = 0 the first call, with utilization 0.3 at t = 10,
\* has error -0.2, integral -0.2 and answers current_count.
C21_PIDAnswer ==
    \A k \in 1..Len(calls) :
        LET c == calls[k]
            a == c.before
            err == 1 - c.current_utilization
            integral == a.accumulated_error + err
            clamped == IF integral < a.i_min THEN a.i_min
                       ELSE IF integral > a.i_max THEN a.i_max ELSE integral
            num == (a.kp * err + a.ki * clamped) * c.dt + a.kd * (err - a.previous_error)
        IN  /\ c.error = err
            /\ c.integral = integral
            /\ c.dt = (IF c.timestamp = a.previous_time THEN 1
                       ELSE c.timestamp - a.previous_time)
            /\ c.result >= 1
            /\ c.result = Max(1, NearestRatio(num, 10 * c.dt) + c.current_bins)
            /\ (k = 1 /\ a.kp = 1 /\ a.ki = 0 /\ a.kd = 0
                  /\ c.current_utilization = 3 /\ c.timestamp = 10) =>
                   /\ c.error = -2
                   /\ c.integral = -2
                   /\ c.result = c.current_bins

\* C21 witness: the scenario's first call, then a second call whose sum
\* the floor of 1 replaces
C21_Witness ==
    /\ Len(calls) = 2
    /\ calls[1].before.kp = 1 /\ calls[1].before.ki = 0 /\ calls[1].before.kd = 0
    /\ calls[1].current_utilization = 3 /\ calls[1].timestamp = 10
    /\ calls[1].result = calls[1].current_bins
    /\ calls[2].current_utilization = 10 /\ calls[2].current_bins = 1
    /\ calls[2].result = 1

\* C22: a point query leaves the recorder as it was, and two queries of the
\* same average for the same timestamp with no record_event between them
\* return the same value.
C22_QueryIdempotent ==
    /\ ret.op = "point_query" => recorder = ret.before
    /\ \A i \in 1..Len(calls), j \in 1..Len(calls) :
           (/\ i < j
            /\ calls[i].op = "point_query" /\ calls[j].op = "point_query"
            /\ calls[i].numerator = calls[j].numerator
            /\ calls[i].timestamp = calls[j].timestamp
            /\ \A k \in (i + 1)..(j - 1) : calls[k].op # "record_event") =>
               calls[i].value = calls[j].value

\* C22 witness: an event is recorded, then the same average is asked twice
\* for the same time and is twice the event's amount
C22_Witness ==
    /\ Len(calls) = 3 /\ pc = "run"
    /\ calls[1].op = "record_event"
    /\ calls[2].op = "point_query" /\ calls[3].op = "point_query"
    /\ calls[2].numerator = calls[3].numerator
    /\ calls[2].timestamp = calls[3].timestamp
    /\ calls[2].value.num > 0 /\ calls[3].value = calls[2].value

\* ------------------------------------------------ claims about the retries
\* the pool had n bins at every probe of the request and when it gave up
SizeKept(l, n) ==
    /\ \A k \in 1..Len(l.probed) : l.probed[k].size = n
    /\ l.gave_up \in {0, n}

\* C23: for a request during whose lifetime the pool kept n bins, the k-th
\* probe went to bin (first + k - 1) mod n, no bin was probed twice, and the
\* request gave up only after n probes, one of every bin.
C23_RoundRobin ==
    \A id \in DOMAIN ledger :
        LET l == ledger[id]
            n == l.probed[1].size
        IN  (l.probed # <<>> /\ SizeKept(l, n)) =>
                /\ \A k \in 1..Len(l.probed) :
                       l.probed[k].bin = (l.probed[1].bin + k - 1) % n
                /\ \A j \in 1..Len(l.probed), k \in 1..Len(l.probed) :
                       j # k => l.probed[j].bin # l.probed[k].bin
                /\ l.gave_up # 0 =>
                       /\ Len(l.probed) = n
                       /\ {l.probed[k].bin : k \in 1..n} = 0..(n - 1)

\* C23 witness: a request gave up on a pool of three bins after probing
\* bins 1, 2 and 0 in that order
C23_Witness ==
    \E id \in DOMAIN ledger :
        /\ ledger[id].gave_up = 3
        /\ SizeKept(ledger[id], 3)
        /\ [k \in 1..3 |-> ledger[id].probed[k].bin] = <<1, 2, 0>>

\* C24: also when an AdaptNow changes the pool between the retries of a
\* request, every probe goes to a bin index of the pool as it is then, no
\* index is probed twice for the request, and the request gives up only once
\* every index of the pool as it is then has been probed for it.
C24_RetriesAcrossReshape ==
    \A id \in DOMAIN ledger :
        LET l == ledger[id]
            probed == {l.probed[k].bin : k \in 1..Len(l.probed)}
        IN  /\ \A k \in 1..Len(l.probed) :
                   0 <= l.probed[k].bin /\ l.probed[k].bin < l.probed[k].size
            /\ \A j \in 1..Len(l.probed), k \in 1..Len(l.probed) :
                   j # k => l.probed[j].bin # l.probed[k].bin
            /\ l.gave_up # 0 => \A b \in 0..(l.gave_up - 1) : b \in probed

\* C25: record_event is called at most once for a request, on the success
\* path or on the ReturnInventoryRequest path; the bins_checked it is given is
\* the number of reserve_stock calls made for the request (1 for a first-probe
\* success, bins_checked + 1 for a success on a retry, the number of probes
\* for a give-up); and when the loop ends, it has been called exactly once for
\* every request.
C25_OneEventPerRequest ==
    \A id \in DOMAIN ledger :
        LET l == ledger[id]
        IN  /\ l.events <= 1 /\ Len(l.checked) = l.events
            /\ l.events = 1 =>
                   /\ l.checked = <<l.probes>>
                   /\ l.probes = Len(l.probed)
                   /\ l.outcome \in {"satisfied", "returned"}
                   /\ l.outcome = "satisfied" <=> l.gave_up = 0
            /\ l.events = 0 => l.outcome \in {"waiting", "retrying"}
            /\ pc = "done" => l.events = 1

\* C25 witness: the loop has ended with one request satisfied on a retry
\* and one given up after three probes
C25_Witness ==
    /\ pc = "done"
    /\ \E b \in DOMAIN ledger, c \in DOMAIN ledger :
           /\ ledger[b].outcome = "satisfied" /\ ledger[b].checked = <<2>>
           /\ ledger[c].outcome = "returned" /\ ledger[c].checked = <<3>>

\* C26: a RetryInventoryRequest put on the list, by the InventoryRequest
\* branch or by the retry branch, has as its timestamp the original arrival
\* plus the queue and service time accumulated so far, which is the end of the
\* lock interval the probe just made appended to the probed bin, and is not
\* before the timestamp of the action being processed.
C26_RetryAtCompletion ==
    [][\A k \in 1..Len(script') :
          (/\ next_ord' = next_ord + 1
           /\ script'[k].ord = next_ord
           /\ script'[k].type = "RetryInventoryRequest") =>
              LET r == script'[k]
                  b == ret'.service_bin_id + 1
              IN  /\ curr_item'.type \in {"InventoryRequest", "RetryInventoryRequest"}
                  /\ ret'.op = "reserve_stock"
                  /\ r.timestamp = r.original_request.timestamp
                                     + r.queue_time_so_far + r.service_time_so_far
                  /\ Len(bins'[b].locked_times) = Len(bins[b].locked_times) + 1
                  /\ Last(bins'[b].locked_times)[1] = curr_item'.timestamp + ret'.queue_time
                  /\ Last(bins'[b].locked_times)[2] = r.timestamp
                  /\ r.timestamp >= curr_item'.timestamp]_vars

\* C26 witness: a second retry has just been scheduled, after a probe that
\* waited in the bin's queue, at the end of the lock that probe appended
C26_Witness ==
    /\ curr_item.type = "RetryInventoryRequest" /\ ret.op = "reserve_stock"
    /\ ret.queue_time > 0
    /\ \E k \in 1..Len(script) :
           /\ script[k].type = "RetryInventoryRequest" /\ script[k].ord = next_ord - 1
           /\ script[k].bins_checked = 2
           /\ script[k].original_request = curr_item.original_request
           /\ script[k].timestamp = Last(bins[ret.service_bin_id + 1].locked_times)[2]
           /\ script[k].timestamp > curr_item.timestamp

\* ---------------------------------------------------- claims about the bins
IsPrefix(a, b) == Len(a) <= Len(b) /\ SubSeq(b, 1, Len(a)) = a

\* the lock intervals of b are in order and do not overlap, its ledger is in
\* time order, and next_unlocked(t) is max(t, end of the last lock)
BinOrdered(b) ==
    /\ \A k \in 1..Len(b.locked_times) : b.locked_times[k][1] <= b.locked_times[k][2]
    /\ \A k \in 1..(Len(b.locked_times) - 1) :
           b.locked_times[k][2] <= b.locked_times[k + 1][1]
    /\ \A k \in 1..(Len(b.stock) - 1) : b.stock[k][1] <= b.stock[k + 1][1]
    /\ \A t \in 0..(Last(b.locked_times)[2] + 1) :
           next_unlocked(b, t) = (IF t >= Last(b.locked_times)[2] THEN t
                                  ELSE Last(b.locked_times)[2])

\* the last call was a reshape_num_bins to another bin count
PoolReplaced(log) ==
    /\ log # <<>>
    /\ Last(log).op = "reshape_num_bins"
    /\ Last(log).num_bins # Len(Last(log).before)

\* C27: whatever reserve_stock, add_stock and reshape_num_bins calls were made,
\* at non-decreasing timestamps, every bin's lock intervals are ordered and do
\* not overlap (start <= end, each starts at or after the end of the one
\* before), its ledger timestamps do not decrease, next_unlocked(t) is max(t,
\* end of the last lock), and a call only appends to the lock history and the
\* ledger of a bin, unless it replaces the pool.
C27_BinHistories ==
    /\ [](\A i \in 1..Len(bins) : BinOrdered(bins[i]))
    /\ [][\/ calls' # calls /\ PoolReplaced(calls')
          \/ /\ Len(bins') = Len(bins)
             /\ \A i \in 1..Len(bins) :
                    /\ IsPrefix(bins[i].locked_times, bins'[i].locked_times)
                    /\ IsPrefix(bins[i].stock, bins'[i].stock)]_vars

\* C27 witness: a bin served two calls, the second of which arrived while the
\* first was in service and waited for its end
C27_Witness ==
    /\ Len(calls) = 2 /\ pc = "run"
    /\ \E i \in 1..Len(bins) :
           /\ Len(bins[i].locked_times) = 3 /\ Len(bins[i].stock) = 3
           /\ bins[i].locked_times[2][1] < bins[i].locked_times[2][2]
           /\ bins[i].locked_times[3][1] = bins[i].locked_times[2][2]
           /\ calls[2].timestamp < bins[i].locked_times[3][1]

\* bin new is bin old after one call at time t that waited queue_time: one
\* lock from t + queue_time on, of some length, and one ledger entry stamped
\* with the end of that lock
ServedOnce(old, new, t, queue_time) ==
    /\ Len(new.locked_times) = Len(old.locked_times) + 1
    /\ IsPrefix(old.locked_times, new.locked_times)
    /\ Last(new.locked_times)[1] = t + queue_time
    /\ Last(new.locked_times)[2] >= t + queue_time
    /\ Len(new.stock) = Len(old.stock) + 1
    /\ IsPrefix(old.stock, new.stock)
    /\ Last(new.stock)[1] = Last(new.locked_times)[2]

\* the time a call at t waits for bin b
WaitFor(b, t) ==
    IF Last(b.locked_times)[2] > t THEN Last(b.locked_times)[2] - t ELSE 0

\* C28: a bin serves its callers in order of arrival. reserve_stock returns
\* the queue time max(end of the bin's last lock, t) - t, which is never
\* negative and is 0 exactly when the bin is free at t, and the service time
\* of the lock it appends; reserve_stock and add_stock append exactly one lock
\* [t + queue, t + queue + service) and exactly one ledger entry stamped
\* t + queue + service to each bin they call, and nothing to the others.
C28_BinServesInOrder ==
    [][(calls' # calls /\ Last(calls').op \in {"reserve_stock", "add_stock"}) =>
          LET c == Last(calls')
              t == c.timestamp
          IN  /\ Len(bins') = Len(bins)
              /\ c.op = "reserve_stock" =>
                     LET b == c.service_bin_id + 1
                     IN  /\ c.queue_time = WaitFor(bins[b], t)
                         /\ c.queue_time >= 0
                         /\ c.queue_time = 0 <=> Last(bins[b].locked_times)[2] <= t
                         /\ ServedOnce(bins[b], bins'[b], t, c.queue_time)
                         /\ Last(bins'[b].locked_times)[2] =
                                t + c.queue_time + c.service_time
                         /\ \A i \in 1..Len(bins) : i # b => bins'[i] = bins[i]
              /\ c.op = "add_stock" =>
                     \A i \in 1..Len(bins) :
                         ServedOnce(bins[i], bins'[i], t, WaitFor(bins[i], t))]_vars

\* C28 witness: a reserve_stock that found its bin in service, waited for the
\* end of that service and was then in service itself
C28_Witness ==
    /\ Len(calls) = 2 /\ pc = "run"
    /\ calls[1].op = "add_stock" /\ calls[2].op = "reserve_stock"
    /\ calls[2].queue_time > 0 /\ calls[2].service_time > 0
    /\ LET b == bins[calls[2].service_bin_id + 1]
       IN  /\ Len(b.locked_times) = 3
           /\ b.locked_times[3][1] = b.locked_times[2][2]
           /\ b.locked_times[3][1] = calls[2].timestamp + calls[2].queue_time
           /\ Last(b.stock)[1] = b.locked_times[3][2]

\* ------------------------------------------------ claims about the reshape
\* the latest of t and the ends of the last locks of the bins bs
LatestEnd(bs, t) ==
    CHOOSE m \in {t} \cup {Last(bs[i].locked_times)[2] : i \in 1..Len(bs)} :
        /\ m >= t
        /\ \A i \in 1..Len(bs) : m >= Last(bs[i].locked_times)[2]

\* C29: reshape_num_bins(n, t) to another bin count returns a completion
\* time that is at least t and at least the end of the last lock of every bin
\* there was; each of the n new bins is created at soonest = max(t, the old
\* bins' next_unlocked(t)) and locked for [soonest, completion), so that its
\* next_unlocked(t) is the completion time.
C29_ReshapeCompletion ==
    [][(calls' # calls /\ PoolReplaced(calls')) =>
          LET c == Last(calls')
              t == c.timestamp
              soonest == LatestEnd(bins, t)
          IN  /\ c.completed >= t
              /\ \A i \in 1..Len(bins) : c.completed >= Last(bins[i].locked_times)[2]
              /\ \A i \in 1..Len(bins) : soonest >= next_unlocked(bins[i], t)
              /\ c.completed >= soonest
              /\ Len(bins') = c.num_bins
              /\ \A j \in 1..Len(bins') :
                     /\ bins'[j].locked_times =
                            <<<<soonest, soonest>>, <<soonest, c.completed>>>>
                     /\ Len(bins'[j].stock) = 1
                     /\ bins'[j].stock[1][1] = soonest
                     /\ next_unlocked(bins'[j], t) = c.completed]_vars

\* C29 witness: the pool is reshaped to another bin count at the very time a
\* bin began a service, and the new bins are locked from the end of that
\* service for the time the reshape takes
C29_Witness ==
    /\ Len(calls) = 2 /\ pc = "run"
    /\ calls[1].op = "reserve_stock" /\ calls[1].service_time > 0
    /\ PoolReplaced(calls)
    /\ calls[2].timestamp = calls[1].timestamp
    /\ calls[2].completed > calls[1].timestamp + calls[1].service_time
    /\ \A j \in 1..Len(bins) :
           bins[j].locked_times[2] =
               <<calls[1].timestamp + calls[1].service_time, calls[2].completed>>

\* C30: reshape_num_bins(n, t) with n the current bin count returns t and
\* leaves the bins as they are: none is replaced, no lock or ledger entry is
\* appended, nothing is drawn from the pool's random source; only the
\* watermark becomes t.
C30_SameCountNoOp ==
    [][(/\ calls' # calls
        /\ Last(calls').op = "reshape_num_bins"
        /\ Last(calls').num_bins = Len(bins)) =>
           /\ Last(calls').completed = Last(calls').timestamp
           /\ Last(calls').draws = 0
           /\ bins' = bins
           /\ last_time_used' = Last(calls').timestamp
           /\ UNCHANGED <<script, recorder, pc, failure, curr_item, next_ord, ledger,
                          restocked, adaptor>>]_vars

\* C30 witness: a pool with a bin still in service is reshaped to the count
\* it has, at a later time: the call returns that time, before the service
\* ends, and the bins are as the first call left them
C30_Witness ==
    /\ Len(calls) = 2 /\ pc = "run"
    /\ calls[1].op = "reserve_stock" /\ calls[1].service_time > 0
    /\ calls[2].op = "reshape_num_bins" /\ calls[2].num_bins = Len(bins)
    /\ calls[2].num_bins = Len(calls[2].before)
    /\ calls[2].timestamp > calls[1].timestamp
    /\ calls[2].completed = calls[2].timestamp /\ calls[2].draws = 0
    /\ last_time_used = calls[2].timestamp
    /\ Len(bins[calls[1].service_bin_id + 1].locked_times) = 2
    /\ \A i \in 1..Len(bins) :
           i # calls[1].service_bin_id + 1 => Len(bins[i].locked_times) = 1

\* ------------------------------------------- claims about calls with bin ids
\* C31: add_stock(q, t, ids) with ids some but not all of the pool's bins
\* raises the pool's stock by exactly q.
C31_SubsetAddsAll ==
    \A k \in AddCalls :
        Len(calls[k].order) < Len(calls[k].before) =>
            SumSeq(calls[k].after) = SumSeq(calls[k].before) + calls[k].quantity

\* the bin ids an add_stock call c was given
Targeted(c) == {c.order[i] : i \in 1..Len(c.order)}

\* C32: add_stock(q, t, ids) changes only the bins of ids: each of them, also
\* one whose share of q is 0, gets exactly one lock interval and one ledger
\* entry appended; every other bin keeps its ledger and lock history; the
\* list returned is ids in ascending order.
C32_AddStockFrame ==
    [][(calls' # calls /\ Last(calls').op = "add_stock") =>
          LET c == Last(calls')
          IN  /\ Len(bins') = Len(bins)
              /\ \A i \in 1..Len(bins) :
                     IF (i - 1) \in Targeted(c)
                     THEN ServedOnce(bins[i], bins'[i], c.timestamp,
                                     WaitFor(bins[i], c.timestamp))
                     ELSE bins'[i] = bins[i]
              /\ {c.returned[i] : i \in 1..Len(c.returned)} = Targeted(c)
              /\ Len(c.returned) = Len(c.order)
              /\ \A i \in 1..(Len(c.returned) - 1) : c.returned[i] < c.returned[i + 1]]_vars

\* C32 witness: bins 2 and 0 of a pool of three were given 1 between them;
\* bin 0 got nothing and has a new lock and ledger entry all the same, bin 1
\* has none, and <<0, 2>> was returned
C32_Witness ==
    /\ ret.op = "add_stock" /\ pc = "run" /\ Len(calls) = 1
    /\ Len(bins) = 3
    /\ ret.order = <<2, 0>> /\ ret.shares = <<1, 0>> /\ ret.returned = <<0, 2>>
    /\ Len(bins[1].locked_times) = 2 /\ Len(bins[1].stock) = 2
    /\ Len(bins[3].locked_times) = 2 /\ Len(bins[3].stock) = 2
    /\ Len(bins[2].locked_times) = 1 /\ Len(bins[2].stock) = 1

\* C33: reserve_stock(q, t, service_bin_id = b) appends one lock interval and
\* one ledger entry to bin b, sets the watermark to t and changes nothing
\* else; it returns b as the bin id and draws nothing from the pool's random
\* source. With no bin id given, the bin served is one of 0 .. num_bins - 1,
\* drawn from the pool's source by one draw.
C33_ReserveStockFrame ==
    [][(calls' # calls /\ Last(calls').op = "reserve_stock") =>
          LET c == Last(calls')
              b == c.service_bin_id + 1
          IN  /\ 0 <= c.service_bin_id /\ c.service_bin_id < Len(bins)
              /\ Len(bins') = Len(bins)
              /\ ServedOnce(bins[b], bins'[b], c.timestamp, c.queue_time)
              /\ \A i \in 1..Len(bins) : i # b => bins'[i] = bins[i]
              /\ last_time_used' = c.timestamp
              /\ IF c.given = None THEN c.draws = 1
                 ELSE c.service_bin_id = c.given /\ c.draws = 0
              /\ UNCHANGED <<script, recorder, pc, failure, curr_item, next_ord, ledger,
                             restocked, adaptor>>]_vars

\* C33 witness: a reservation with no bin id was served by bin 0, then one
\* naming bin 2 was served by bin 2 without a draw; bin 1 is as it was built
C33_Witness ==
    /\ Len(calls) = 2 /\ pc = "run" /\ Len(bins) = 3
    /\ calls[1].op = "reserve_stock" /\ calls[1].given = None
    /\ calls[1].service_bin_id = 0 /\ calls[1].draws = 1
    /\ calls[2].op = "reserve_stock" /\ calls[2].given = 2
    /\ calls[2].service_bin_id = 2 /\ calls[2].draws = 0
    /\ Len(bins[1].locked_times) = 2 /\ Len(bins[3].locked_times) = 2
    /\ Len(bins[2].locked_times) = 1 /\ Len(bins[2].stock) = 1
    /\ last_time_used = calls[2].timestamp

\* ------------------------------------------ claims about the pool-size history
\* C34: the pool-size history starts with one sample, taken at time 0 before
\* the loop; a processed AdaptNow appends one sample with the tick's timestamp
\* and the pool's num_bins() after the reshape (none if the tick ends the run
\* with an error); no other action touches the history; its timestamps never
\* decrease.
C34_PoolSizeHistory ==
    /\ [](/\ Len(recorder.bin_nums) >= 1
          /\ recorder.bin_nums[1][1] = 0
          /\ \A k \in 1..(Len(recorder.bin_nums) - 1) :
                 recorder.bin_nums[k][1] <= recorder.bin_nums[k + 1][1]
          /\ (pc # "failed" /\ Len(recorder.bin_nums) = 1) =>
                 recorder.bin_nums[1][2] = num_bins(bins)
          /\ (pc # "failed" /\ curr_item.type = "AdaptNow") =>
                 Last(recorder.bin_nums) = <<curr_item.timestamp, num_bins(bins)>>)
    /\ [][IF Running("AdaptNow") /\ pc' # "failed"
          THEN recorder'.bin_nums =
                   Append(recorder.bin_nums, <<Head(script).timestamp, num_bins(bins')>>)
          ELSE recorder'.bin_nums = recorder.bin_nums]_vars

\* C34 witness: two ticks were processed, at 0 and at 10, the second one
\* growing the pool from two bins to three: three samples, the last <<10, 3>>
C34_Witness ==
    /\ pc # "failed" /\ curr_item.type = "AdaptNow"
    /\ Len(recorder.bin_nums) = 3
    /\ recorder.bin_nums[2] = <<0, 2>>
    /\ recorder.bin_nums[3] = <<TIME_BETWEEN_ADAPTATION, 3>>
    /\ num_bins(bins) = 3

\* ------------------------------------------ claims about the point queries
\* the bucket a point query for time t reads, the sample rate being sr
SelectedBucket(t, sr) ==
    LET b == t \div sr
    IN  IF 100 * (t % sr) <= 5 * sr
        THEN (IF b = 0 THEN 0 ELSE b - 1)
        ELSE b

\* C35: a point query reads bucket floor(time / sample_rate), or the bucket
\* before it when (time mod sample_rate) / sample_rate <= 0.05, bucket 0 if
\* there is none before; it returns that bucket's sum divided by that bucket's
\* sample count (0 when the bucket holds no sample).
C35_QueryBucket ==
    (ret.op = "point_query" /\ pc = "run") =>
        LET sel == SelectedBucket(ret.timestamp, ret.before.sample_rate)
            count == At(ret.before.num_records, sel)
            sum == At(ret.before[ret.numerator], sel)
        IN  /\ point_query_index(ret.before, ret.timestamp) = sel
            /\ ret.value = IF count = 0 THEN [num |-> 0, den |-> 1]
                           ELSE [num |-> sum, den |-> count]

\* C35 witness: with buckets 20 wide and two events in bucket 0, the queue
\* time average asked for time 21, at position 0.05 of bucket 1, is that of
\* bucket 0
C35_Witness ==
    /\ ret.op = "point_query" /\ pc = "run" /\ Len(calls) = 3
    /\ ret.before.sample_rate = 2 * TIME_BETWEEN_ADAPTATION
    /\ ret.timestamp = 2 * TIME_BETWEEN_ADAPTATION + 1
    /\ ret.numerator = "queue_waiting_numerator"
    /\ At(ret.before.num_records, 0) = 2 /\ At(ret.before.num_records, 1) = 0
    /\ ret.value = [num |-> 3, den |-> 2]

====
